---- MODULE Spec2Model ----
(***************************************************************************)
(* Model of kiro-total-recall's indexing engine: the memory budgeter       *)
(* (select_sessions_within_limit), the embedding cache (_load_cache,       *)
(* _save_cache) and the conversation index (build_index, ensure_index,     *)
(* search), translated from src/src/kiro_total_recall/indexer.py,          *)
(* loader.py, models.py and server.py.                                     *)
(***************************************************************************)
EXTENDS Integers, Sequences, FiniteSets, TLC

VARIABLES
    \* ---- the host ----
    raw_sessions,      \* what the source readers list now, in source order
    memory_limit,      \* get_memory_limit()
    cache_file,        \* the persisted embedding cache: [kind, data]
    \* ---- memory budgeter (SpecBudget) ----
    selected,          \* first component of select_sessions_within_limit
    excluded,          \* second component
    budget_pc,         \* "input" before the call, "done" after it
    \* ---- concurrent cache writers (SpecSave) ----
    save_pc,           \* per writer process: its position in _save_cache
    lock_holder,       \* the writers inside FileLock(lock_file)
    new_embeddings,    \* per writer: the new_embeddings argument
    existing,          \* per writer: the local `existing`
    temp_file,         \* per writer: cache_file.with_suffix(".tmp.<pid>")
    h_replaced,        \* history: the writers whose os.replace happened
    h_cache0,          \* history: the cache as it was before the writers ran
    \* ---- the server process and its index (Spec) ----
    epoch,             \* which run of the server process this is
    events,            \* how many host events (session changes, failures,
                       \* restarts) have happened
    model,             \* ConversationIndex._model: "None" or "loaded"
    messages,          \* ConversationIndex._messages
    embeddings,        \* ConversationIndex._embeddings: None or rows
    text_hashes,       \* ConversationIndex._text_hashes
    sessions_fingerprint,    \* ConversationIndex._sessions_fingerprint
    excluded_session_count,  \* ConversationIndex._excluded_session_count
    timestamp_order,   \* ConversationIndex._timestamp_order
    sorted_timestamps, \* ConversationIndex._sorted_timestamps
    pc,                \* per thread: where it is
    loc,               \* per thread: the locals of its build_index call
    result,            \* what the request thread's last search returned
    h_quiet,           \* history: "yes" once an ensure call has run alone and
                       \* returned with no session change since it began,
                       \* "twice" once a further call has followed it so
    h_prev,            \* history: a build that completed and was persisted
    \* ---- one search call (SpecSearch, SpecQuery, SpecDedup, SpecHint) ----
    q_in,              \* the arguments of the call
    q_out,             \* what the call returned
    q_pc               \* "call" before the call, "returned" after it

host_vars == <<raw_sessions, memory_limit, cache_file>>

budget_vars == <<selected, excluded, budget_pc>>

save_vars ==
    <<save_pc, lock_holder, new_embeddings, existing, temp_file, h_replaced, h_cache0>>

index_vars ==
    <<model, messages, embeddings, text_hashes, sessions_fingerprint,
      excluded_session_count, timestamp_order, sorted_timestamps>>

history_vars == <<h_quiet, h_prev>>

server_vars == <<epoch, events, index_vars, pc, loc, result, history_vars>>

query_vars == <<q_in, q_out, q_pc>>

vars == <<host_vars, budget_vars, save_vars, server_vars, query_vars>>

(***************************************************************************)
(* Sequence helpers.                                                       *)
(***************************************************************************)
Range(s) == {s[i] : i \in 1..Len(s)}

RECURSIVE SumSeq(_)
SumSeq(s) == IF s = <<>> THEN 0 ELSE Head(s) + SumSeq(Tail(s))

(***************************************************************************)
(* models.py: SessionInfo.  An absent datetime (None) is the empty         *)
(* sequence, a present one is <<t>>.                                       *)
(***************************************************************************)
datetime_min == 0

timestamp_fallback(s) ==
    IF s.modified # <<>> THEN s.modified[1]
    ELSE IF s.created # <<>> THEN s.created[1]
    ELSE datetime_min

\* sorted(xs, key=timestamp_fallback, reverse=True): Python's sort is stable,
\* also with reverse=True, so equal keys keep their input order.
RECURSIVE InsertDesc(_, _)
InsertDesc(sorted, x) ==
    IF sorted = <<>> THEN <<x>>
    ELSE IF timestamp_fallback(Head(sorted)) >= timestamp_fallback(x)
         THEN <<Head(sorted)>> \o InsertDesc(Tail(sorted), x)
         ELSE <<x>> \o sorted

RECURSIVE SortDesc(_)
SortDesc(xs) ==
    IF xs = <<>> THEN <<>>
    ELSE InsertDesc(SortDesc(SubSeq(xs, 1, Len(xs) - 1)), xs[Len(xs)])

\* loader.py: list_all_sessions, over what the enabled sources list.
list_all_sessions(listed) == SortDesc(listed)

(***************************************************************************)
(* indexer.py: select_sessions_within_limit.                               *)
(***************************************************************************)
BYTES_PER_MESSAGE == 2600

DefaultMessageEstimate == 10

estimated_bytes(s) ==
    (IF s.message_count > 0 THEN s.message_count ELSE DefaultMessageEstimate)
        * BYTES_PER_MESSAGE

\* A loop that stops at the first session that does not fit and excludes
\* every older one (the "newest-first prefix" reading).
RECURSIVE SelectLoopStopEarly(_, _, _)
SelectLoopStopEarly(sorted_sessions, limit, acc) ==
    IF sorted_sessions = <<>> THEN acc
    ELSE LET session == Head(sorted_sessions)
             estimated == estimated_bytes(session)
         IN  IF acc.current_bytes + estimated <= limit
             THEN SelectLoopStopEarly(Tail(sorted_sessions), limit,
                     [selected |-> Append(acc.selected, session),
                      excluded |-> acc.excluded,
                      current_bytes |-> acc.current_bytes + estimated])
             ELSE [selected |-> acc.selected,
                   excluded |-> acc.excluded \o sorted_sessions,
                   current_bytes |-> acc.current_bytes]

\* A loop whose test forgets the session being added.
RECURSIVE SelectLoopLateTest(_, _, _)
SelectLoopLateTest(sorted_sessions, limit, acc) ==
    IF sorted_sessions = <<>> THEN acc
    ELSE LET session == Head(sorted_sessions)
             estimated == estimated_bytes(session)
         IN  IF acc.current_bytes <= limit
             THEN SelectLoopLateTest(Tail(sorted_sessions), limit,
                     [selected |-> Append(acc.selected, session),
                      excluded |-> acc.excluded,
                      current_bytes |-> acc.current_bytes + estimated])
             ELSE SelectLoopLateTest(Tail(sorted_sessions), limit,
                     [selected |-> acc.selected,
                      excluded |-> Append(acc.excluded, session),
                      current_bytes |-> acc.current_bytes])

\* The for loop of lines 89-96 over sorted_sessions, from the accumulator
\* acc = [selected, excluded, current_bytes].
RECURSIVE SelectLoop(_, _, _)
SelectLoop(sorted_sessions, limit, acc) ==
    IF sorted_sessions = <<>> THEN acc
    ELSE LET session == Head(sorted_sessions)
             estimated == estimated_bytes(session)
         IN  IF acc.current_bytes + estimated <= limit
             THEN SelectLoop(Tail(sorted_sessions), limit,
                     [selected |-> Append(acc.selected, session),
                      excluded |-> acc.excluded,
                      current_bytes |-> acc.current_bytes + estimated])
             ELSE SelectLoop(Tail(sorted_sessions), limit,
                     [selected |-> acc.selected,
                      excluded |-> Append(acc.excluded, session),
                      current_bytes |-> acc.current_bytes])

select_loop(sorted_sessions, limit) ==
    SelectLoop(sorted_sessions, limit,
               [selected |-> <<>>, excluded |-> <<>>, current_bytes |-> 0])

\* A selection that forgets the sessions it leaves out.
select_drop_excluded(sessions, memory_limit_bytes) ==
    IF memory_limit_bytes <= 0
    THEN [selected |-> sessions, excluded |-> <<>>]
    ELSE LET r == select_loop(SortDesc(sessions), memory_limit_bytes)
         IN  [selected |-> r.selected, excluded |-> <<>>]

select_sessions_within_limit(sessions, memory_limit_bytes) ==
    IF memory_limit_bytes <= 0
    THEN [selected |-> sessions, excluded |-> <<>>]
    ELSE LET r == select_loop(SortDesc(sessions), memory_limit_bytes)
         IN  [selected |-> r.selected, excluded |-> r.excluded]

(***************************************************************************)
(* The embedding provider and the content hash.  A vector records the text *)
(* it embeds, the process run that computed it (so a vector read back from *)
(* the cache can be told from one computed again) and its dimension.       *)
(***************************************************************************)
EMBEDDING_DIM == 384

Texts == {"a", "b"}

\* indexer.py: _compute_text_hash.
md5(text) == <<"md5", text>>

\* model.encode(text, normalize_embeddings=True) in process run `run`.
encode(text, run) == [text |-> text, run |-> run, dim |-> EMBEDDING_DIM]

\* A vector some other embedding model wrote: not of dimension EMBEDDING_DIM.
foreign_vector(text) == [text |-> text, run |-> 0, dim |-> 2 * EMBEDDING_DIM]

\* One row of np.zeros((n, EMBEDDING_DIM)).
zero_row == [text |-> "", run |-> 0, dim |-> EMBEDDING_DIM]

(***************************************************************************)
(* indexer.py: the persisted cache.  cache_file = [kind, data]: kind says  *)
(* what open() and pickle.load() make of the file, data is the pickled     *)
(* dict (hash -> vector) when kind = "dict".                               *)
(*   missing     open() raises FileNotFoundError (an OSError)              *)
(*   unreadable  open() raises PermissionError (an OSError)                *)
(*   truncated   pickle.load raises EOFError                               *)
(*   garbage     pickle.load raises pickle.UnpicklingError                 *)
(*   badpickle   pickle.load raises another exception (ValueError,         *)
(*               AttributeError, ...), which _load_cache does not catch    *)
(*   notdict     a pickled object that is not a dict                       *)
(***************************************************************************)
EmptyCache == [h \in {} |-> zero_row]

CacheKinds ==
    {"missing", "unreadable", "truncated", "garbage", "badpickle", "notdict", "dict"}

NoDict(kind) == [kind |-> kind, data |-> EmptyCache]

DictFile(data) == [kind |-> "dict", data |-> data]

\* _load_cache: [raised, cache].
load_cache(file) ==
    IF file.kind = "dict" THEN [raised |-> FALSE, cache |-> file.data]
    ELSE IF file.kind = "badpickle" THEN [raised |-> TRUE, cache |-> EmptyCache]
    ELSE [raised |-> FALSE, cache |-> EmptyCache]

\* A merge that keeps only the new entries.
merge_drop_existing(old, new) == new

\* merged = {**existing, **new_embeddings}: the new entry wins.
merge_cache(old, new) == new @@ old

\* The hashes a reader finds in the file.
PersistedHashes(file) == DOMAIN load_cache(file).cache

(***************************************************************************)
(* Values of the variables a specification does not use.                   *)
(***************************************************************************)
BudgetIdle ==
    /\ selected = <<>>
    /\ excluded = <<>>
    /\ budget_pc = "idle"

ServerIdle ==
    /\ epoch = 0
    /\ events = 0
    /\ model = "None"
    /\ messages = <<>>
    /\ embeddings = <<>>
    /\ text_hashes = <<>>
    /\ sessions_fingerprint = <<>>
    /\ excluded_session_count = 0
    /\ timestamp_order = <<>>
    /\ sorted_timestamps = <<>>
    /\ pc = <<>>
    /\ loc = <<>>
    /\ result = <<>>
    /\ h_quiet = "no"
    /\ h_prev = <<>>

QueryIdle ==
    /\ q_in = <<>>
    /\ q_out = <<>>
    /\ q_pc = "idle"

SaveIdle ==
    /\ save_pc = <<>>
    /\ lock_holder = {}
    /\ new_embeddings = <<>>
    /\ existing = <<>>
    /\ temp_file = <<>>
    /\ h_replaced = {}
    /\ h_cache0 = NoDict("missing")

(***************************************************************************)
(* SpecBudget: the budgeter applied, as build_index lines 190-192 apply    *)
(* it, to the listing of any sessions the sources may hold.                *)
(***************************************************************************)
MaxSessions == 3

MessageCounts == {0, 4, 12}

\* (created, modified): neither, created only, both, modified only.
SessionTimes ==
    {<< <<>>, <<>> >>, << <<1>>, <<>> >>, << <<1>>, <<2>> >>, << <<>>, <<1>> >>}

SessionInfo(id) ==
    {[session_id |-> id, message_count |-> c, created |-> tm[1], modified |-> tm[2]] :
        c \in MessageCounts, tm \in SessionTimes}

\* Session lists of n sessions with the distinct ids 1..n.
RECURSIVE SessionLists(_)
SessionLists(n) ==
    IF n = 0 THEN {<<>>}
    ELSE {Append(l, s) : l \in SessionLists(n - 1), s \in SessionInfo(n)}

MemoryLimits ==
    {-1, 0, 1,
     4 * BYTES_PER_MESSAGE, 10 * BYTES_PER_MESSAGE - 1, 14 * BYTES_PER_MESSAGE,
     22 * BYTES_PER_MESSAGE}

BudgetInit ==
    /\ raw_sessions \in UNION {SessionLists(n) : n \in 0..MaxSessions}
    /\ memory_limit \in MemoryLimits
    /\ selected = <<>>
    /\ excluded = <<>>
    /\ budget_pc = "input"
    /\ cache_file = NoDict("missing")
    /\ SaveIdle
    /\ ServerIdle
    /\ QueryIdle

SelectSessions ==
    /\ budget_pc = "input"
    /\ LET r == select_sessions_within_limit(list_all_sessions(raw_sessions),
                                             memory_limit)
       IN  /\ selected' = r.selected
           /\ excluded' = r.excluded
    /\ budget_pc' = "done"
    /\ UNCHANGED <<host_vars, save_vars, server_vars, query_vars>>

BudgetNext == SelectSessions

SpecBudget == BudgetInit /\ [][BudgetNext]_vars

(***************************************************************************)
(* Memory budgeter properties.                                             *)
(***************************************************************************)
RECURSIVE TotalEstimated(_)
TotalEstimated(ss) ==
    IF ss = <<>> THEN 0 ELSE estimated_bytes(Head(ss)) + TotalEstimated(Tail(ss))

BudgetInput == list_all_sessions(raw_sessions)

\* C8: for any sessions and any limit > 0, the selected sessions' total
\* estimated size (message count, or 10 when unknown, times bytes per message)
\* is at most the limit.
C8_SelectedWithinLimit ==
    (budget_pc = "done" /\ memory_limit > 0)
        => TotalEstimated(selected) <= memory_limit

\* C8 witness: a positive limit that admits some sessions and refuses others.
C8_Witness ==
    /\ budget_pc = "done"
    /\ memory_limit > 0
    /\ selected # <<>>
    /\ excluded # <<>>
    /\ \E i \in 1..Len(selected) : selected[i].message_count = 0

RECURSIVE SelectedBefore(_, _)
SelectedBefore(srt, k) ==
    IF k <= 1 THEN 0
    ELSE SelectedBefore(srt, k - 1)
         + (IF srt[k - 1] \in Range(selected) THEN estimated_bytes(srt[k - 1]) ELSE 0)

C10_Partition ==
    budget_pc = "done"
        => /\ Range(selected) \cup Range(excluded) = Range(raw_sessions)
           /\ Range(selected) \cap Range(excluded) = {}
           /\ Len(selected) + Len(excluded) = Len(raw_sessions)
           /\ memory_limit <= 0 => (selected = BudgetInput /\ excluded = <<>>)

\* C10 witness: one call with a positive limit that splits the input, and
\* (in another run) one with a limit <= 0 over a non-empty input.
C10_Witness ==
    /\ budget_pc = "done"
    /\ Len(raw_sessions) = MaxSessions
    /\ \/ (memory_limit > 0 /\ selected # <<>> /\ excluded # <<>>)
       \/ (memory_limit < 0 /\ selected # <<>>)

(***************************************************************************)
(* SpecSave: several processes run _save_cache (indexer.py:147-169) on the *)
(* same cache directory, one step at a time.                               *)
(***************************************************************************)
NumSavers == 2

Savers == 1..NumSavers

\* The dicts a build can hand to _save_cache in run p: never empty (line 266).
NewEmbeddings(p) ==
    {[h \in {md5(t) : t \in ts} |-> encode(h[2], p)] : ts \in (SUBSET Texts) \ {{}}}

\* What the cache directory can hold before the writers start.
InitialCacheFiles ==
    {NoDict(k) : k \in CacheKinds \ {"dict"}}
        \cup {DictFile([h \in {md5(t) : t \in ts} |-> encode(h[2], 0)]) : ts \in SUBSET Texts}

NoTempFile == NoDict("missing")

SaveInit ==
    /\ cache_file \in InitialCacheFiles
    /\ h_cache0 = cache_file
    /\ new_embeddings \in [Savers -> UNION {NewEmbeddings(p) : p \in Savers}]
    /\ \A p \in Savers : new_embeddings[p] \in NewEmbeddings(p)
    /\ save_pc = [p \in Savers |-> "mkdir"]
    /\ lock_holder = {}
    /\ existing = [p \in Savers |-> EmptyCache]
    /\ temp_file = [p \in Savers |-> NoTempFile]
    /\ h_replaced = {}
    /\ raw_sessions = <<>>
    /\ memory_limit = 0
    /\ BudgetIdle
    /\ QueryIdle
    /\ ServerIdle

\* line 154: cache_path.mkdir(parents=True, exist_ok=True), before the try.
SaveMkdir(p) ==
    /\ save_pc[p] = "mkdir"
    /\ save_pc' = [save_pc EXCEPT ![p] = "lock"]
    /\ UNCHANGED <<host_vars, budget_vars, server_vars, query_vars, lock_holder, new_embeddings, existing,
                   temp_file, h_replaced, h_cache0>>

\* line 154 raises OSError: nothing catches it in _save_cache.
SaveMkdirError(p) ==
    /\ save_pc[p] = "mkdir"
    /\ save_pc' = [save_pc EXCEPT ![p] = "raised"]
    /\ UNCHANGED <<host_vars, budget_vars, server_vars, query_vars, lock_holder, new_embeddings, existing,
                   temp_file, h_replaced, h_cache0>>

\* A writer that does not wait for the lock.
lock_not_checked(p) == TRUE

\* line 157: FileLock(lock_file) blocks until no other holder is left.
lock_is_free(p) == lock_holder \subseteq {p}

SaveAcquire(p) ==
    /\ save_pc[p] = "lock"
    /\ lock_is_free(p)
    /\ lock_holder' = lock_holder \cup {p}
    /\ save_pc' = [save_pc EXCEPT ![p] = "load"]
    /\ UNCHANGED <<host_vars, budget_vars, server_vars, query_vars, new_embeddings, existing, temp_file,
                   h_replaced, h_cache0>>

\* line 157 raises OSError (the lock file cannot be opened): caught at 168.
SaveLockError(p) ==
    /\ save_pc[p] = "lock"
    /\ save_pc' = [save_pc EXCEPT ![p] = "done"]
    /\ UNCHANGED <<host_vars, budget_vars, server_vars, query_vars, lock_holder, new_embeddings, existing,
                   temp_file, h_replaced, h_cache0>>

\* line 158: existing = self._load_cache(); an exception that _load_cache
\* does not catch leaves the with block (the lock is released) and
\* _save_cache.
SaveLoad(p) ==
    /\ save_pc[p] = "load"
    /\ LET r == load_cache(cache_file)
       IN  IF r.raised
           THEN /\ save_pc' = [save_pc EXCEPT ![p] = "raised"]
                /\ lock_holder' = lock_holder \ {p}
                /\ UNCHANGED existing
           ELSE /\ save_pc' = [save_pc EXCEPT ![p] = "write"]
                /\ existing' = [existing EXCEPT ![p] = r.cache]
                /\ UNCHANGED lock_holder
    /\ UNCHANGED <<host_vars, budget_vars, server_vars, query_vars, new_embeddings, temp_file, h_replaced,
                   h_cache0>>

\* lines 159-163: merge and pickle.dump into the temporary file.
SaveWriteTemp(p) ==
    /\ save_pc[p] = "write"
    /\ temp_file' = [temp_file EXCEPT
                        ![p] = DictFile(merge_cache(existing[p], new_embeddings[p]))]
    /\ save_pc' = [save_pc EXCEPT ![p] = "replace"]
    /\ UNCHANGED <<host_vars, budget_vars, server_vars, query_vars, lock_holder, new_embeddings, existing,
                   h_replaced, h_cache0>>

\* lines 162-167: the write raises OSError; the temporary file is unlinked.
SaveWriteError(p) ==
    /\ save_pc[p] = "write"
    /\ temp_file' = [temp_file EXCEPT ![p] = NoTempFile]
    /\ save_pc' = [save_pc EXCEPT ![p] = "release"]
    /\ UNCHANGED <<host_vars, budget_vars, server_vars, query_vars, lock_holder, new_embeddings, existing,
                   h_replaced, h_cache0>>

\* line 164: os.replace(temp_file, cache_file), atomic.
SaveReplace(p) ==
    /\ save_pc[p] = "replace"
    /\ cache_file' = temp_file[p]
    /\ temp_file' = [temp_file EXCEPT ![p] = NoTempFile]
    /\ h_replaced' = h_replaced \cup {p}
    /\ save_pc' = [save_pc EXCEPT ![p] = "release"]
    /\ UNCHANGED <<raw_sessions, memory_limit, budget_vars, server_vars, query_vars, lock_holder,
                   new_embeddings, existing, h_cache0>>

\* lines 164-167: os.replace raises OSError; the temporary file is unlinked.
SaveReplaceError(p) ==
    /\ save_pc[p] = "replace"
    /\ temp_file' = [temp_file EXCEPT ![p] = NoTempFile]
    /\ save_pc' = [save_pc EXCEPT ![p] = "release"]
    /\ UNCHANGED <<host_vars, budget_vars, server_vars, query_vars, lock_holder, new_embeddings, existing,
                   h_replaced, h_cache0>>

\* The with block of line 157 ends: the lock is released.
SaveRelease(p) ==
    /\ save_pc[p] = "release"
    /\ lock_holder' = lock_holder \ {p}
    /\ save_pc' = [save_pc EXCEPT ![p] = "done"]
    /\ UNCHANGED <<host_vars, budget_vars, server_vars, query_vars, new_embeddings, existing, temp_file,
                   h_replaced, h_cache0>>

SaveNext ==
    \E p \in Savers :
        \/ SaveMkdir(p)
        \/ SaveMkdirError(p)
        \/ SaveAcquire(p)
        \/ SaveLockError(p)
        \/ SaveLoad(p)
        \/ SaveWriteTemp(p)
        \/ SaveWriteError(p)
        \/ SaveReplace(p)
        \/ SaveReplaceError(p)
        \/ SaveRelease(p)

SpecSave == SaveInit /\ [][SaveNext]_vars

(***************************************************************************)
(* Concurrent cache writers.                                               *)
(***************************************************************************)
SaversFinished == \A p \in Savers : save_pc[p] \in {"done", "raised"}

\* C4: whatever the interleaving of the writers, once all of them have
\* finished the persisted cache holds every hash it held before and every
\* hash of every writer whose rename happened: no writer's entries are lost
\* to another writer.
C4_NoEntryLost ==
    SaversFinished
        => /\ PersistedHashes(h_cache0) \subseteq PersistedHashes(cache_file)
           /\ \A p \in h_replaced :
                 DOMAIN new_embeddings[p] \subseteq PersistedHashes(cache_file)

\* C4 witness: two writers with different entries both renamed their file
\* over a cache that already held an entry of neither.
C4_Witness ==
    /\ SaversFinished
    /\ \E p \in h_replaced : \E q \in h_replaced :
          /\ p # q
          /\ DOMAIN new_embeddings[p] # DOMAIN new_embeddings[q]
    /\ \E h \in PersistedHashes(h_cache0) :
          \E p \in h_replaced : h \notin DOMAIN new_embeddings[p]

(***************************************************************************)
(* Spec: one server process.  server.py starts the preload thread, which   *)
(* loads the model and calls ensure_index(); the request thread answers    *)
(* searches, each of which calls ensure_index() first.  Both work on the   *)
(* one ConversationIndex of get_index().  The sessions the sources hold    *)
(* change under the process, and the process can be started again.         *)
(***************************************************************************)
\* Host events in one behaviour: session-set changes, injected failures
\* (the provider, the cache directory) and restarts of the process.
MaxEvents == 1

\* The code embeds 100 texts per model call (indexer.py:244); the model uses
\* a smaller batch so that a build of a few messages takes several calls.
batch_size == 2

Threads == {"preload", "request"}

BuildPcs ==
    {"build_fingerprint", "build_load", "build_cache", "build_embed", "build_save",
     "build_metadata"}

\* The sessions the sources can hold: 1 has two messages, 2 repeats a text
\* of 1 and gives no message count, 3 has no timestamp and no readable
\* message.
WorldIds == {1, 2, 3}

WorldSession(id) ==
    IF id = 1 THEN [session_id |-> 1, message_count |-> 2, created |-> <<1>>, modified |-> <<3>>]
    ELSE IF id = 2 THEN [session_id |-> 2, message_count |-> 0, created |-> <<2>>, modified |-> <<>>]
    ELSE [session_id |-> id, message_count |-> 1, created |-> <<>>, modified |-> <<>>]

IndexedMessage(uuid, session_id, timestamp, text, message_index) ==
    [uuid |-> uuid, session_id |-> session_id, timestamp |-> timestamp,
     searchable_text |-> text, message_index |-> message_index]

\* loader.py: load_session_messages; a session that cannot be read yields
\* no message.
load_session_messages(session) ==
    IF session.session_id = 1
    THEN <<IndexedMessage("m1", 1, 2, "a", 0), IndexedMessage("m2", 1, 1, "b", 1)>>
    ELSE IF session.session_id = 2
    THEN <<IndexedMessage("m3", 2, 3, "a", 0)>>
    ELSE <<>>

\* loader.py: load_messages_for_sessions.
RECURSIVE load_messages_for_sessions(_)
load_messages_for_sessions(sessions) ==
    IF sessions = <<>> THEN <<>>
    ELSE load_session_messages(Head(sessions))
            \o load_messages_for_sessions(Tail(sessions))

\* The listing of the sources when they hold the sessions `ids`.
RECURSIVE Listing(_, _)
Listing(ids, n) ==
    IF n = 0 THEN <<>>
    ELSE Listing(ids, n - 1) \o (IF n \in ids THEN <<WorldSession(n)>> ELSE <<>>)

ListedIds == {raw_sessions[i].session_id : i \in 1..Len(raw_sessions)}

\* indexer.py: _get_sessions_fingerprint.  The digest of the sorted parts is
\* the set of the (session id, timestamp) pairs: session ids are distinct.
get_sessions_fingerprint(listed) ==
    LET sessions == list_all_sessions(listed)
    IN  <<"md5", {<<sessions[i].session_id, timestamp_fallback(sessions[i])>> :
                      i \in 1..Len(sessions)}>>

\* A check that finds every index stale.
needs_rebuild_always(listed) == TRUE

\* indexer.py: needs_rebuild.
needs_rebuild(listed) == get_sessions_fingerprint(listed) # sessions_fingerprint

\* A numpy array (Array) or None.
None == [none |-> TRUE, rows |-> <<>>]

Array(rows) == [none |-> FALSE, rows |-> rows]

\* np.argsort(timestamps): the permutations that sort the timestamps.  The
\* default sort kind is not stable, so equal timestamps may come in any order.
IndexPermutations(n) ==
    {f \in [1..n -> 1..n] : \A i, j \in 1..n : i # j => f[i] # f[j]}

argsort(ts) ==
    {f \in IndexPermutations(Len(ts)) :
        \A i \in 1..(Len(ts) - 1) : ts[f[i]] <= ts[f[i + 1]]}

Timestamps(msgs) == [i \in 1..Len(msgs) |-> msgs[i].timestamp]

\* The locals of a build_index call, and what the history keeps of it.
NoLocals ==
    [cache |-> EmptyCache, texts_to_embed |-> <<>>, indices_to_embed |-> <<>>,
     new_cache |-> EmptyCache, batch_start |-> 0,
     built |-> FALSE, calls |-> <<>>, solo |-> FALSE, cache_bad |-> FALSE,
     save |-> "none", cause |-> "none"]

NoPrev == [valid |-> FALSE, epoch |-> 0, messages |-> <<>>, rows |-> <<>>]

\* ConversationIndex.__init__ in a new process, with its two threads.
NewProcess ==
    /\ model = "None"
    /\ messages = <<>>
    /\ embeddings = None
    /\ text_hashes = <<>>
    /\ sessions_fingerprint = <<"", {}>>
    /\ excluded_session_count = 0
    /\ timestamp_order = None
    /\ sorted_timestamps = None
    /\ pc = [t \in Threads |-> IF t = "preload" THEN "start" ELSE "idle"]
    /\ loc = [t \in Threads |-> NoLocals]
    /\ result = [status |-> "none", hits |-> 0]

ServerInitialCaches ==
    {NoDict(k) : k \in CacheKinds \ {"dict"}}
        \cup {DictFile(EmptyCache),
              DictFile(md5("a") :> encode("a", 0)),
              DictFile(md5("a") :> foreign_vector("a"))}

Init ==
    /\ raw_sessions \in {Listing(ids, 3) : ids \in SUBSET WorldIds}
    /\ memory_limit \in {0, 4 * BYTES_PER_MESSAGE}
    /\ cache_file \in ServerInitialCaches
    /\ epoch = 1
    /\ events = 0
    /\ NewProcess
    /\ h_quiet = "no"
    /\ h_prev = NoPrev
    /\ BudgetIdle
    /\ QueryIdle
    /\ SaveIdle

\* The host: the set of sessions changes (one appears or disappears).
SessionsChange ==
    /\ events < MaxEvents
    /\ events' = events + 1
    /\ \E id \in WorldIds :
          raw_sessions' = Listing((ListedIds \ {id}) \cup ({id} \ ListedIds), 3)
    /\ h_quiet' = "no"
    /\ UNCHANGED <<memory_limit, cache_file, budget_vars, save_vars, query_vars, epoch,
                   index_vars, pc, loc, result, h_prev>>

\* What is left alone by every step of the server process.
OtherSpecsIdle == UNCHANGED <<budget_vars, save_vars, query_vars>>

\* The last ensure call ran alone and returned, and the sessions have not
\* changed since it began.
Quiet == h_quiet \in {"yes", "twice"}

\* The ensure call of the running thread returns.
CallReturns == h_quiet' = (IF h_quiet = "running" THEN "yes" ELSE h_quiet)

\* The ensure call of the running thread raises.
CallRaises == h_quiet' = "no"

OthersBuilding(t) == \E u \in Threads \ {t} : pc[u] \in BuildPcs

\* server.py:20: `_ = index.model` on the preload thread loads the model.
PreloadModel ==
    /\ pc["preload"] = "start"
    /\ model' = "loaded"
    /\ pc' = [pc EXCEPT !["preload"] = "idle"]
    /\ OtherSpecsIdle
    /\ UNCHANGED <<host_vars, epoch, events, messages, embeddings, text_hashes,
                   sessions_fingerprint, excluded_session_count, timestamp_order,
                   sorted_timestamps, loc, result, history_vars>>

\* server.py:20-23: the model cannot be loaded; the preload thread swallows
\* the exception and ends without calling ensure_index.
PreloadModelError ==
    /\ pc["preload"] = "start"
    /\ events < MaxEvents
    /\ events' = events + 1
    /\ pc' = [pc EXCEPT !["preload"] = "raised"]
    /\ loc' = [loc EXCEPT !["preload"].cause = "model"]
    /\ OtherSpecsIdle
    /\ UNCHANGED <<host_vars, epoch, index_vars, result, history_vars>>

\* indexer.py:273-276, ensure_index: the test of line 275.  The preload
\* thread calls it at server.py:21, the request thread at indexer.py:289.
EnsureIndex(t) ==
    /\ pc[t] = "idle"
    /\ LET need == embeddings.none \/ needs_rebuild(raw_sessions)
           alone == ~OthersBuilding(t)
       IN  /\ pc' = [pc EXCEPT ![t] = IF need THEN "build_fingerprint" ELSE "ensured"]
           /\ loc' = [u \in Threads |->
                        IF u = t THEN [NoLocals EXCEPT !.solo = alone]
                        ELSE IF need THEN [loc[u] EXCEPT !.solo = FALSE]
                        ELSE loc[u]]
           /\ h_quiet' = (IF ~alone THEN "no"
                          ELSE IF need THEN "running"
                          ELSE IF Quiet THEN "twice"
                          ELSE "yes")
    /\ OtherSpecsIdle
    /\ UNCHANGED <<host_vars, epoch, events, index_vars, result, h_prev>>

\* indexer.py:188: self._sessions_fingerprint = _get_sessions_fingerprint().
BuildFingerprint(t) ==
    /\ pc[t] = "build_fingerprint"
    /\ sessions_fingerprint' = get_sessions_fingerprint(raw_sessions)
    /\ loc' = [loc EXCEPT ![t].built = TRUE]
    /\ pc' = [pc EXCEPT ![t] = "build_load"]
    /\ OtherSpecsIdle
    /\ UNCHANGED <<host_vars, epoch, events, model, messages, embeddings,
                   text_hashes, excluded_session_count, timestamp_order,
                   sorted_timestamps, result, h_quiet, h_prev>>

\* indexer.py:190-211: list the sessions again, apply the memory limit, load
\* the messages; with no message the index becomes the empty one and
\* build_index returns (line 211) without reaching _build_metadata_indices.
BuildLoad(t) ==
    /\ pc[t] = "build_load"
    /\ LET all_sessions == list_all_sessions(raw_sessions)
           r == select_sessions_within_limit(all_sessions, memory_limit)
           loaded == load_messages_for_sessions(r.selected)
       IN  /\ excluded_session_count' = Len(r.excluded)
           /\ messages' = loaded
           /\ IF loaded = <<>>
              THEN /\ embeddings' = Array(<<>>)
                   /\ text_hashes' = <<>>
                   /\ pc' = [pc EXCEPT ![t] = "ensured"]
                   /\ CallReturns
              ELSE /\ pc' = [pc EXCEPT ![t] = "build_cache"]
                   /\ UNCHANGED <<embeddings, text_hashes, h_quiet>>
    /\ OtherSpecsIdle
    /\ UNCHANGED <<host_vars, epoch, events, model, sessions_fingerprint,
                   timestamp_order, sorted_timestamps, loc, result, h_prev>>

Min(a, b) == IF a <= b THEN a ELSE b

Indices(n) == [i \in 1..n |-> i]

\* Is the file a mapping from hash to vectors of dimension EMBEDDING_DIM.
CacheGood(file) ==
    /\ file.kind = "dict"
    /\ \A h \in DOMAIN file.data : file.data[h].dim = EMBEDDING_DIM

\* indexer.py:218-236: read the cache, hash every message, collect the
\* misses, allocate the matrix and copy the cached vectors in.  An exception
\* _load_cache does not catch, or a cached vector of another dimension (the
\* assignment of line 235 raises ValueError), ends build_index.
BuildCache(t) ==
    /\ pc[t] = "build_cache"
    /\ LET r == load_cache(cache_file)
           n == Len(messages)
           hashes == [i \in 1..n |-> md5(messages[i].searchable_text)]
           Miss(i) == hashes[i] \notin DOMAIN r.cache
           indices == SelectSeq(Indices(n), Miss)
           bad == {i \in 1..n : ~Miss(i) /\ r.cache[hashes[i]].dim # EMBEDDING_DIM}
           stop == IF bad = {} THEN n + 1 ELSE CHOOSE i \in bad : \A j \in bad : i <= j
           rows == [i \in 1..n |->
                      IF ~Miss(i) /\ i < stop THEN r.cache[hashes[i]] ELSE zero_row]
       IN  IF r.raised
           THEN /\ pc' = [pc EXCEPT ![t] = "raised"]
                /\ loc' = [loc EXCEPT ![t].cause = "cache_read", ![t].cache_bad = TRUE]
                /\ CallRaises
                /\ UNCHANGED <<text_hashes, embeddings>>
           ELSE /\ text_hashes' = hashes
                /\ embeddings' = Array(rows)
                /\ loc' = [loc EXCEPT
                              ![t].cache = r.cache,
                              ![t].texts_to_embed =
                                  [k \in 1..Len(indices) |->
                                      messages[indices[k]].searchable_text],
                              ![t].indices_to_embed = indices,
                              ![t].cache_bad = ~CacheGood(cache_file),
                              ![t].save = IF indices = <<>> THEN "nothing" ELSE "none",
                              ![t].cause = IF bad # {} THEN "cache_dim" ELSE "none"]
                /\ pc' = [pc EXCEPT ![t] =
                             IF bad # {} THEN "raised"
                             ELSE IF indices = <<>> THEN "build_metadata"
                             ELSE "build_embed"]
                /\ IF bad # {} THEN CallRaises ELSE UNCHANGED h_quiet
    /\ OtherSpecsIdle
    /\ UNCHANGED <<host_vars, epoch, events, model, messages,
                   sessions_fingerprint, excluded_session_count, timestamp_order,
                   sorted_timestamps, result, h_prev>>

\* indexer.py:257-259: store one batch's vectors.  Both subscripts read the
\* index, which another thread's build may have replaced: an index past the
\* end raises IndexError.
RECURSIVE AssignBatch(_, _, _, _, _)
AssignBatch(rows, hashes, new_cache, batch_indices, batch_embeddings) ==
    IF batch_indices = <<>>
    THEN [ok |-> TRUE, rows |-> rows, new_cache |-> new_cache]
    ELSE LET idx == Head(batch_indices)
             vec == Head(batch_embeddings)
         IN  IF idx > Len(rows)
             THEN [ok |-> FALSE, rows |-> rows, new_cache |-> new_cache]
             ELSE IF idx > Len(hashes)
             THEN [ok |-> FALSE, rows |-> [rows EXCEPT ![idx] = vec],
                   new_cache |-> new_cache]
             ELSE AssignBatch([rows EXCEPT ![idx] = vec], hashes,
                              (hashes[idx] :> vec) @@ new_cache,
                              Tail(batch_indices), Tail(batch_embeddings))

\* indexer.py:245-262: one turn of the batch loop, one model.encode call.
BuildEmbed(t) ==
    /\ pc[t] = "build_embed"
    /\ LET l == loc[t]
           batch_end == Min(l.batch_start + batch_size, Len(l.texts_to_embed))
           batch_texts == SubSeq(l.texts_to_embed, l.batch_start + 1, batch_end)
           batch_indices == SubSeq(l.indices_to_embed, l.batch_start + 1, batch_end)
           batch_embeddings ==
               [i \in 1..Len(batch_texts) |-> encode(batch_texts[i], epoch)]
           a == AssignBatch(embeddings.rows, text_hashes, l.new_cache,
                            batch_indices, batch_embeddings)
       IN  /\ embeddings' = Array(a.rows)
           /\ loc' = [loc EXCEPT ![t].new_cache = a.new_cache,
                                 ![t].batch_start = batch_end,
                                 ![t].calls = Append(l.calls, batch_texts),
                                 ![t].cause = IF a.ok THEN "none" ELSE "index"]
           /\ pc' = [pc EXCEPT ![t] =
                        IF ~a.ok THEN "raised"
                        ELSE IF batch_end < Len(l.texts_to_embed) THEN "build_embed"
                        ELSE "build_save"]
           /\ IF a.ok THEN UNCHANGED h_quiet ELSE CallRaises
    /\ model' = "loaded"
    /\ OtherSpecsIdle
    /\ UNCHANGED <<host_vars, epoch, events, messages, text_hashes,
                   sessions_fingerprint, excluded_session_count, timestamp_order,
                   sorted_timestamps, result, h_prev>>

\* indexer.py:250: the embedding provider fails (the model cannot be loaded
\* or encode raises); nothing in build_index catches it.
BuildEmbedError(t) ==
    /\ pc[t] = "build_embed"
    /\ events < MaxEvents
    /\ events' = events + 1
    /\ pc' = [pc EXCEPT ![t] = "raised"]
    /\ loc' = [loc EXCEPT ![t].cause = "model"]
    /\ CallRaises
    /\ OtherSpecsIdle
    /\ UNCHANGED <<host_vars, epoch, index_vars, result, h_prev>>

\* How a call of _save_cache can go.
SaveOutcomes == {"ok", "mkdir_failed", "lock_failed", "write_failed", "replace_failed"}

\* indexer.py:266-268 with _save_cache (147-169) as one step: FileLock makes
\* the read-merge-replace of one writer atomic for every other (SpecSave).
\*   mkdir_failed    line 154 raises OSError, outside the try: it propagates
\*   lock_failed     line 157 raises OSError, caught at line 168
\*   write_failed    lines 162-163 raise OSError, caught at line 165
\*   replace_failed  line 164 raises OSError, caught at line 165
BuildSave(t) ==
    /\ pc[t] = "build_save"
    /\ \E outcome \in SaveOutcomes :
          LET r == load_cache(cache_file)
              raises == outcome = "mkdir_failed" \/ (outcome # "lock_failed" /\ r.raised)
          IN  /\ outcome # "ok" => events < MaxEvents
              /\ events' = IF outcome = "ok" THEN events ELSE events + 1
              /\ cache_file' =
                    IF outcome = "ok" /\ ~r.raised
                    THEN DictFile(merge_cache(r.cache, loc[t].new_cache))
                    ELSE cache_file
              /\ loc' = [loc EXCEPT
                            ![t].save = outcome,
                            ![t].cause = IF outcome = "mkdir_failed" THEN "mkdir"
                                         ELSE IF raises THEN "cache_read"
                                         ELSE "none"]
              /\ pc' = [pc EXCEPT ![t] = IF raises THEN "raised" ELSE "build_metadata"]
              /\ IF raises THEN CallRaises ELSE UNCHANGED h_quiet
    /\ OtherSpecsIdle
    /\ UNCHANGED <<raw_sessions, memory_limit, epoch, index_vars, result,
                   h_prev>>

\* indexer.py:270 and 171-180, _build_metadata_indices; build_index and
\* ensure_index return.
BuildMetadata(t) ==
    /\ pc[t] = "build_metadata"
    /\ \E order \in argsort(Timestamps(messages)) :
          /\ timestamp_order' = Array(order)
          /\ sorted_timestamps' =
                Array([i \in 1..Len(messages) |-> messages[order[i]].timestamp])
    /\ pc' = [pc EXCEPT ![t] = "ensured"]
    /\ CallReturns
    /\ h_prev' =
          IF /\ loc[t].solo
             /\ loc[t].save = "ok"
             /\ (~h_prev.valid \/ h_prev.epoch = epoch)
          THEN [valid |-> TRUE, epoch |-> epoch, messages |-> messages,
                rows |-> embeddings.rows]
          ELSE h_prev
    /\ OtherSpecsIdle
    /\ UNCHANGED <<host_vars, epoch, events, model, messages, embeddings,
                   text_hashes, sessions_fingerprint, excluded_session_count, loc,
                   result>>

\* server.py:21-23: ensure_index returned; the preload thread ends.
PreloadDone ==
    /\ pc["preload"] = "ensured"
    /\ pc' = [pc EXCEPT !["preload"] = "done"]
    /\ loc' = [loc EXCEPT !["preload"] = NoLocals]
    /\ OtherSpecsIdle
    /\ UNCHANGED <<host_vars, epoch, events, index_vars, result, history_vars>>

\* server.py:22-23: `except Exception: pass`.
PreloadSwallow ==
    /\ pc["preload"] = "raised"
    /\ pc' = [pc EXCEPT !["preload"] = "done"]
    /\ loc' = [loc EXCEPT !["preload"] = NoLocals]
    /\ OtherSpecsIdle
    /\ UNCHANGED <<host_vars, epoch, events, index_vars, result, history_vars>>

\* indexer.py:291-337, search after ensure_index, without date bounds: an
\* empty index gives no result; otherwise the query is embedded and every
\* message's row is scored (line 314 raises IndexError when the matrix has
\* fewer rows than there are messages).
SearchBody ==
    /\ pc["request"] = "ensured"
    /\ IF embeddings.none \/ Len(embeddings.rows) = 0
       THEN /\ result' = [status |-> "ok", hits |-> 0]
            /\ pc' = [pc EXCEPT !["request"] = "idle"]
            /\ loc' = [loc EXCEPT !["request"] = NoLocals]
            /\ UNCHANGED model
       ELSE /\ model' = "loaded"
            /\ IF Len(messages) > Len(embeddings.rows)
               THEN /\ pc' = [pc EXCEPT !["request"] = "raised"]
                    /\ loc' = [loc EXCEPT !["request"].cause = "index"]
                    /\ UNCHANGED result
               ELSE /\ result' = [status |-> "ok", hits |-> Len(messages)]
                    /\ pc' = [pc EXCEPT !["request"] = "idle"]
                    /\ loc' = [loc EXCEPT !["request"] = NoLocals]
    /\ OtherSpecsIdle
    /\ UNCHANGED <<host_vars, epoch, events, messages, embeddings, text_hashes,
                   sessions_fingerprint, excluded_session_count, timestamp_order,
                   sorted_timestamps, history_vars>>

\* indexer.py:307: embedding the query fails.
SearchEncodeError ==
    /\ pc["request"] = "ensured"
    /\ ~(embeddings.none \/ Len(embeddings.rows) = 0)
    /\ events < MaxEvents
    /\ events' = events + 1
    /\ pc' = [pc EXCEPT !["request"] = "raised"]
    /\ loc' = [loc EXCEPT !["request"].cause = "model"]
    /\ OtherSpecsIdle
    /\ UNCHANGED <<host_vars, epoch, index_vars, result, history_vars>>

\* The exception leaves search: the request ends with an error.
SearchRaise ==
    /\ pc["request"] = "raised"
    /\ pc' = [pc EXCEPT !["request"] = "idle"]
    /\ result' = [status |-> "error", hits |-> 0]
    /\ loc' = [loc EXCEPT !["request"] = NoLocals]
    /\ OtherSpecsIdle
    /\ UNCHANGED <<host_vars, epoch, events, index_vars, history_vars>>

\* The server process ends and a new one starts: a fresh index, the same
\* cache directory.
Restart ==
    /\ events < MaxEvents
    /\ events' = events + 1
    /\ epoch' = epoch + 1
    /\ model' = "None"
    /\ messages' = <<>>
    /\ embeddings' = None
    /\ text_hashes' = <<>>
    /\ sessions_fingerprint' = <<"", {}>>
    /\ excluded_session_count' = 0
    /\ timestamp_order' = None
    /\ sorted_timestamps' = None
    /\ pc' = [t \in Threads |-> IF t = "preload" THEN "start" ELSE "idle"]
    /\ loc' = [t \in Threads |-> NoLocals]
    /\ result' = [status |-> "none", hits |-> 0]
    /\ h_quiet' = "no"
    /\ OtherSpecsIdle
    /\ UNCHANGED <<host_vars, h_prev>>

Next ==
    \/ SessionsChange
    \/ Restart
    \/ PreloadModel
    \/ PreloadModelError
    \/ PreloadDone
    \/ PreloadSwallow
    \/ SearchBody
    \/ SearchEncodeError
    \/ SearchRaise
    \/ \E t \in Threads :
          \/ EnsureIndex(t)
          \/ BuildFingerprint(t)
          \/ BuildLoad(t)
          \/ BuildCache(t)
          \/ BuildEmbed(t)
          \/ BuildEmbedError(t)
          \/ BuildSave(t)
          \/ BuildMetadata(t)

Spec == Init /\ [][Next]_vars

\* ---------------------------------------------------------------------------
\* Properties of the server process (Spec)
\* ---------------------------------------------------------------------------

\* The texts of every model.encode call of a build, in order.
RECURSIVE Flatten(_)
Flatten(seqs) == IF seqs = <<>> THEN <<>> ELSE Head(seqs) \o Flatten(Tail(seqs))

Occurrences(seq, x) == Cardinality({i \in 1..Len(seq) : seq[i] = x})

\* Row i of the matrix is a vector of message i's text, for every message.
RowsMatchMessages ==
    /\ ~embeddings.none
    /\ Len(embeddings.rows) = Len(messages)
    /\ \A i \in 1..Len(messages) :
          embeddings.rows[i].text = messages[i].searchable_text

\* The thread's ensure call ran a build alone and has returned.
BuiltAlone(t) == pc[t] = "ensured" /\ loc[t].solo /\ loc[t].built

\* C1: an ensure call that follows an ensure call which ran alone and
\* returned, with no change of the sessions since that call began, runs no
\* build: it returns at once and leaves the index and the cache file as
\* they are.
C1_SecondEnsureIsNoOp ==
    [][\A t \in Threads :
          (Quiet /\ pc[t] = "idle" /\ pc'[t] # "idle" /\ epoch' = epoch)
             => (pc'[t] = "ensured" /\ UNCHANGED <<index_vars, cache_file>>)]_vars

\* C1: a second ensure call in a row has returned over a built index of
\* several messages.
C1_Witness ==
    /\ h_quiet = "twice"
    /\ pc["request"] = "ensured"
    /\ Len(messages) >= 2
    /\ RowsMatchMessages

\* C2: within one build no text is handed to the embedding provider more
\* than once, however many messages carry it.
C2_TextEmbeddedAtMostOnce ==
    \A t \in Threads : \A text \in Texts :
        Occurrences(Flatten(loc[t].calls), text) <= 1

\* C3: after a build that ran alone, completed and wrote the cache, the
\* cache file holds under each message's hash the vector of that message's
\* row; and when an earlier process had built the same messages that way, a
\* build in a later process calls the embedding provider for none of them
\* and ends with the same rows.
C3_CacheRoundTrip ==
    \A t \in Threads :
        /\ (BuiltAlone(t) /\ loc[t].save = "ok") =>
              /\ cache_file.kind = "dict"
              /\ RowsMatchMessages
              /\ \A i \in 1..Len(messages) :
                    /\ text_hashes[i] = md5(messages[i].searchable_text)
                    /\ text_hashes[i] \in DOMAIN cache_file.data
                    /\ cache_file.data[text_hashes[i]] = embeddings.rows[i]
        /\ (BuiltAlone(t) /\ h_prev.valid /\ h_prev.epoch < epoch
               /\ messages = h_prev.messages) =>
              /\ loc[t].calls = <<>>
              /\ embeddings.rows = h_prev.rows

\* C3: a later process has rebuilt the messages an earlier process built and
\* cached, and a row holds a vector the earlier process computed.
C3_Witness ==
    \E t \in Threads :
        /\ BuiltAlone(t)
        /\ h_prev.valid
        /\ h_prev.epoch < epoch
        /\ messages = h_prev.messages
        /\ Len(messages) >= 2
        /\ \E i \in 1..Len(messages) : embeddings.rows[i].run = h_prev.epoch

\* The index is what one complete build leaves that listed the sessions as
\* `first` at line 188 and as `listed` at line 190: the fingerprint of the
\* one, the selection and the messages of the other, one vector per message
\* and a permutation that sorts those messages' timestamps (a build over no
\* message leaves the permutation unset or empty).
CompleteBuildOf(first, listed) ==
    LET r == select_sessions_within_limit(list_all_sessions(listed), memory_limit)
        loaded == load_messages_for_sessions(r.selected)
    IN  /\ sessions_fingerprint = get_sessions_fingerprint(first)
        /\ excluded_session_count = Len(r.excluded)
        /\ messages = loaded
        /\ RowsMatchMessages
        /\ text_hashes = [i \in 1..Len(loaded) |-> md5(loaded[i].searchable_text)]
        /\ IF loaded = <<>>
           THEN timestamp_order.none \/ timestamp_order.rows = <<>>
           ELSE /\ ~timestamp_order.none
                /\ timestamp_order.rows \in argsort(Timestamps(loaded))
                /\ ~sorted_timestamps.none
                /\ sorted_timestamps.rows =
                      [i \in 1..Len(loaded) |->
                          loaded[timestamp_order.rows[i]].timestamp]

\* C5: a search that has passed ensure_index reads the complete state of
\* one build, with row i of the matrix a vector of message i; this holds too
\* while another thread builds and after a build ended with an error.
C5_SearchSeesOneBuild ==
    pc["request"] = "ensured" =>
        \E ids1, ids2 \in SUBSET WorldIds :
            CompleteBuildOf(Listing(ids1, 3), Listing(ids2, 3))

\* C6: a cache write that fails does not make the build raise.
C6_SaveFailureNotFatal ==
    \A t \in Threads :
        loc[t].save \in SaveOutcomes \ {"ok"} => pc[t] # "raised"

\* C7: a cache file that is missing, unreadable, or not a mapping from hash
\* to vectors of the model's dimension behaves as an empty cache: reading it
\* does not make the build raise, and a build that runs alone embeds every
\* message.
C7_UnreadableCacheIsEmpty ==
    \A t \in Threads :
        loc[t].cache_bad =>
            /\ ~(pc[t] = "raised" /\ loc[t].cause \in {"cache_read", "cache_dim"})
            /\ (pc[t] = "build_embed" /\ loc[t].solo) =>
                  Len(loc[t].texts_to_embed) = Len(messages)

(***************************************************************************)
(* SpecSearch: ConversationIndex.search over an index that a build has     *)
(* completed and that is current, so that ensure_index (line 289) builds   *)
(* nothing.  A score is a similarity in hundred-thousandths; a workspace   *)
(* label is the sequence of its characters.                                *)
(***************************************************************************)
\* The most messages an index holds.
MaxMessages == 3

\* An optional argument that is not given (Python's None).  An optional
\* date is a sequence, empty when the date is not given; a workspace that is
\* not given is the empty label, which line 327 treats as None.
Absent == "None"

QueryTexts == {"hi", "mid", "lo"}

\* indexer.py:315, np.dot(candidate_embeddings, query_embedding): the cosine
\* of a row and the query vector, which the row's text determines.
dot(row) ==
    CASE row.text = "hi" -> 50000
      [] row.text = "mid" -> 30004
      [] row.text = "lo" -> 10000
      [] OTHER -> 0

\* str.startswith.
startswith(str, prefix) ==
    /\ Len(prefix) <= Len(str)
    /\ SubSeq(str, 1, Len(prefix)) = prefix

\* The messages a corpus is made of: timestamp, text, workspace, source.
MessageKinds ==
    {[timestamp |-> 5,  text |-> "hi",  workspace |-> <<"/", "w", "/", "x">>, source |-> "cli"],
     [timestamp |-> 10, text |-> "hi",  workspace |-> <<"/", "v">>,           source |-> "cli"],
     [timestamp |-> 10, text |-> "mid", workspace |-> <<"/", "w">>,           source |-> "ide"],
     [timestamp |-> 15, text |-> "mid", workspace |-> <<"/", "w">>,           source |-> "cli"],
     [timestamp |-> 15, text |-> "lo",  workspace |-> <<"/", "w">>,           source |-> "cli"],
     [timestamp |-> 5,  text |-> "mid", workspace |-> <<"/", "w", "z">>,      source |-> "cli"]}

\* models.py:16-26 with the workspace and the source of the message.
SearchMessage(uuid, session_id, message_index, kind) ==
    [uuid |-> uuid, session_id |-> session_id, timestamp |-> kind.timestamp,
     message_index |-> message_index, searchable_text |-> kind.text,
     workspace |-> kind.workspace, source |-> kind.source]

RECURSIVE KindLists(_)
KindLists(n) ==
    IF n = 0 THEN {<<>>}
    ELSE {Append(l, k) : l \in KindLists(n - 1), k \in MessageKinds}

\* The messages of one session, in index order.
SearchCorpora ==
    {[i \in 1..Len(l) |-> SearchMessage(i, 1, i - 1, l[i])] :
        l \in UNION {KindLists(n) : n \in 0..MaxMessages}}

\* The matrix build_index leaves for the messages: row i embeds message i.
EmbeddingsOf(msgs) ==
    Array([i \in 1..Len(msgs) |-> encode(msgs[i].searchable_text, 1)])

\* np.searchsorted(a, v, side="right") on a sorted array.
searchsorted_right(a, v) == Cardinality({i \in 1..Len(a) : a[i] <= v})

\* indexer.py:297-298, np.searchsorted(a, v, side="left") on a sorted array.
searchsorted_left(a, v) == Cardinality({i \in 1..Len(a) : a[i] < v})

\* indexer.py:293-301: the candidate indices (1-based), in timestamp order
\* with a date bound and in index order without.
candidate_indices(msgs, ts_order, sorted_ts, after, before) ==
    IF after # <<>> \/ before # <<>>
    THEN LET start_idx == IF after = <<>> THEN 0
                          ELSE searchsorted_left(sorted_ts, after[1])
             end_idx == IF before = <<>> THEN Len(sorted_ts)
                        ELSE searchsorted_left(sorted_ts, before[1])
         IN  SubSeq(ts_order, start_idx + 1, end_idx)
    ELSE Indices(Len(msgs))

Reverse(seq) == [i \in 1..Len(seq) |-> seq[Len(seq) + 1 - i]]

\* A walk that leaves the loop at the first candidate a filter rejects.
RECURSIVE SearchWalkStopAtFilter(_, _, _, _, _, _)
SearchWalkStopAtFilter(sorted_local_indices, similarities, candidates, msgs, q, results) ==
    IF sorted_local_indices = <<>> THEN results
    ELSE LET local_idx == Head(sorted_local_indices)
             score == similarities[local_idx]
             msg == msgs[candidates[local_idx]]
         IN  IF score < q.threshold THEN results
             ELSE IF q.workspace # <<>> /\ ~startswith(msg.workspace, q.workspace)
             THEN results
             ELSE IF q.source # Absent /\ msg.source # q.source
             THEN results
             ELSE LET more == Append(results, [msg |-> msg, score |-> score])
                  IN  IF Len(more) >= q.max_results THEN more
                      ELSE SearchWalkStopAtFilter(Tail(sorted_local_indices),
                               similarities, candidates, msgs, q, more)

\* indexer.py:318-335: the loop over the candidates in descending score.
RECURSIVE SearchWalk(_, _, _, _, _, _)
SearchWalk(sorted_local_indices, similarities, candidates, msgs, q, results) ==
    IF sorted_local_indices = <<>> THEN results
    ELSE LET local_idx == Head(sorted_local_indices)
             score == similarities[local_idx]
             msg == msgs[candidates[local_idx]]
         IN  IF score < q.threshold THEN results
             ELSE IF q.workspace # <<>> /\ ~startswith(msg.workspace, q.workspace)
             THEN SearchWalk(Tail(sorted_local_indices), similarities,
                             candidates, msgs, q, results)
             ELSE IF q.source # Absent /\ msg.source # q.source
             THEN SearchWalk(Tail(sorted_local_indices), similarities,
                             candidates, msgs, q, results)
             ELSE LET more == Append(results, [msg |-> msg, score |-> score])
                  IN  IF Len(more) >= q.max_results THEN more
                      ELSE SearchWalk(Tail(sorted_local_indices), similarities,
                                      candidates, msgs, q, more)

\* A search that goes on to the date filter and the scoring without the
\* test of line 291.
search_without_empty_test(msgs, emb, ts_order, sorted_ts, q) ==
    LET candidates ==
            candidate_indices(msgs, ts_order, sorted_ts, q.after, q.before)
    IN  IF Len(candidates) = 0
        THEN {[candidates |-> candidates, results |-> <<>>, encoded |-> FALSE]}
        ELSE IF emb.none \/ \E k \in 1..Len(candidates) : candidates[k] > Len(emb.rows)
        THEN {[candidates |-> candidates, results |-> <<>>, encoded |-> TRUE]}
        ELSE LET similarities ==
                     [k \in 1..Len(candidates) |-> dot(emb.rows[candidates[k]])]
             IN  {[candidates |-> candidates,
                   results |-> SearchWalk(Reverse(order), similarities,
                                          candidates, msgs, q, <<>>),
                   encoded |-> TRUE] : order \in argsort(similarities)}

\* indexer.py:291-337 after ensure_index: every list search can return, one
\* for each order np.argsort (line 316, not a stable sort) can give.  Each
\* outcome carries the candidates and whether the query was embedded.
search(msgs, emb, ts_order, sorted_ts, q) ==
    IF emb.none \/ Len(emb.rows) = 0
    THEN {[candidates |-> <<>>, results |-> <<>>, encoded |-> FALSE]}
    ELSE LET candidates ==
                 candidate_indices(msgs, ts_order, sorted_ts, q.after, q.before)
         IN  IF Len(candidates) = 0
             THEN {[candidates |-> candidates, results |-> <<>>, encoded |-> FALSE]}
             ELSE LET similarities ==
                          [k \in 1..Len(candidates) |-> dot(emb.rows[candidates[k]])]
                  IN  {[candidates |-> candidates,
                        results |-> SearchWalk(Reverse(order), similarities,
                                               candidates, msgs, q, <<>>),
                        encoded |-> TRUE] : order \in argsort(similarities)}

\* The arguments of a search call.
SearchArgs ==
    [workspace : {<<>>, <<"/", "w">>},
     source : {Absent, "cli"},
     threshold : {20000, 30004},
     max_results : {1, MaxMessages},
     after : {<<>>, <<7>>, <<10>>},
     before : {<<>>, <<15>>}]

\* The timestamps of the messages an earlier build of the process indexed.
EarlierTimestamps == {<<>>, <<5>>, <<10, 5>>}

\* The index as a completed build leaves it; the other variables of the
\* server process play no part.  A build that finds no message returns at
\* line 211 and leaves the timestamp arrays as they were: unset in a new
\* process, those of the earlier messages after a rebuild.
BuiltIndex(corpus) ==
    /\ messages = corpus
    /\ embeddings = EmbeddingsOf(corpus)
    /\ text_hashes = [i \in 1..Len(corpus) |-> md5(corpus[i].searchable_text)]
    /\ \E ts \in (IF corpus = <<>> THEN EarlierTimestamps ELSE {Timestamps(corpus)}) :
          IF ts = <<>>
          THEN timestamp_order = None /\ sorted_timestamps = None
          ELSE \E order \in argsort(ts) :
                  /\ timestamp_order = Array(order)
                  /\ sorted_timestamps = Array([i \in 1..Len(ts) |-> ts[order[i]]])
    /\ epoch = 1
    /\ events = 0
    /\ model = "loaded"
    /\ sessions_fingerprint = <<>>
    /\ excluded_session_count = 0
    /\ pc = <<>>
    /\ loc = <<>>
    /\ result = <<>>
    /\ h_quiet = "no"
    /\ h_prev = <<>>
    /\ raw_sessions = <<>>
    /\ memory_limit = 0
    /\ cache_file = NoDict("missing")
    /\ BudgetIdle
    /\ SaveIdle

SearchInit ==
    /\ \E corpus \in SearchCorpora : BuiltIndex(corpus)
    /\ q_in \in SearchArgs
    /\ q_out = <<>>
    /\ q_pc = "call"

\* One call of ConversationIndex.search.
Search ==
    /\ q_pc = "call"
    /\ q_out' \in search(messages, embeddings, timestamp_order.rows,
                         sorted_timestamps.rows, q_in)
    /\ q_pc' = "returned"
    /\ UNCHANGED <<host_vars, budget_vars, save_vars, server_vars, q_in>>

SearchNext == Search

SpecSearch == SearchInit /\ [][SearchNext]_vars

\* ---------------------------------------------------------------------------
\* Properties of index search (SpecSearch)
\* ---------------------------------------------------------------------------

\* The timestamp lies in the half-open interval of the call's date bounds.
InDateRange(t) ==
    /\ (q_in.after = <<>> \/ q_in.after[1] <= t)
    /\ (q_in.before = <<>> \/ t < q_in.before[1])

\* The message at this index passes the threshold and the two filters.
Passes(i) ==
    /\ dot(embeddings.rows[i]) >= q_in.threshold
    /\ (q_in.workspace = <<>> \/ startswith(messages[i].workspace, q_in.workspace))
    /\ (q_in.source = Absent \/ messages[i].source = q_in.source)

\* Where a message stands in the candidate list.
CandidatePosition(uuid) ==
    CHOOSE k \in 1..Len(q_out.candidates) : q_out.candidates[k] = uuid

\* C12: with a date bound, every returned message's timestamp t satisfies
\* after <= t < before (a missing bound is unbounded), and the candidates are
\* exactly the messages whose timestamp satisfies it, each once.
C12_DateFilter ==
    (q_pc = "returned" /\ (q_in.after # <<>> \/ q_in.before # <<>>)) =>
        /\ \A k \in 1..Len(q_out.results) :
              InDateRange(q_out.results[k].msg.timestamp)
        /\ Range(q_out.candidates) =
              {i \in 1..Len(messages) : InDateRange(messages[i].timestamp)}
        /\ Cardinality(Range(q_out.candidates)) = Len(q_out.candidates)

\* C12: the corpus with timestamps 5, 10, 15 searched with after = 7 has the
\* candidates 10 and 15 only.
C12_Witness ==
    /\ q_pc = "returned"
    /\ Timestamps(messages) = <<5, 10, 15>>
    /\ q_in.after = <<7>>
    /\ q_in.before = <<>>
    /\ Range(q_out.candidates) = {2, 3}
    /\ Len(q_out.results) >= 1

\* C13: search returns the first max_results, in descending score, of the
\* candidates that pass the threshold and the filters: every result is such
\* a candidate with its score, none twice; there are min(max_results, number
\* passing) of them; and no passing candidate left out scores higher than a
\* returned one.
C13_FiltersSkipNotStop ==
    q_pc = "returned" =>
        LET results == q_out.results
            passing == {i \in Range(q_out.candidates) : Passes(i)}
            returned == {results[k].msg.uuid : k \in 1..Len(results)}
        IN  /\ returned \subseteq passing
            /\ Cardinality(returned) = Len(results)
            /\ \A k \in 1..Len(results) :
                  /\ results[k].msg = messages[results[k].msg.uuid]
                  /\ results[k].score = dot(embeddings.rows[results[k].msg.uuid])
            /\ \A k \in 1..(Len(results) - 1) :
                  results[k].score >= results[k + 1].score
            /\ Len(results) = Min(q_in.max_results, Cardinality(passing))
            /\ \A i \in passing \ returned : \A k \in 1..Len(results) :
                  dot(embeddings.rows[i]) <= results[k].score

\* C13: a candidate above the threshold that a filter rejects scores higher
\* than a returned one, and a passing candidate was cut by max_results.
C13_Witness ==
    /\ q_pc = "returned"
    /\ Len(q_out.results) = q_in.max_results
    /\ \E i \in Range(q_out.candidates) :
          /\ ~Passes(i)
          /\ dot(embeddings.rows[i]) >= q_in.threshold
          /\ \E k \in 1..Len(q_out.results) :
                q_out.results[k].score < dot(embeddings.rows[i])
    /\ \E i \in Range(q_out.candidates) :
          Passes(i) /\ \A k \in 1..Len(q_out.results) : q_out.results[k].msg.uuid # i

\* C20: results of equal score come in the order their messages have in the
\* candidate list.
C20_TiesKeepCandidateOrder ==
    q_pc = "returned" =>
        \A j, k \in 1..Len(q_out.results) :
            (j < k /\ q_out.results[j].score = q_out.results[k].score) =>
                CandidatePosition(q_out.results[j].msg.uuid)
                    < CandidatePosition(q_out.results[k].msg.uuid)

(***************************************************************************)
(* SpecDedup: query.py's _deduplicate_results applied to a raw result list *)
(* as index search returns it: distinct messages in descending score.      *)
(***************************************************************************)
\* The most raw results a list holds.
MaxResults == 3

\* No index, no host: the call is a pure function of its arguments.
NoServer ==
    /\ raw_sessions = <<>>
    /\ memory_limit = 0
    /\ cache_file = NoDict("missing")
    /\ BudgetIdle
    /\ SaveIdle
    /\ ServerIdle

\* list.sort(key=message_index), a stable sort: insertion after the equals.
RECURSIVE SortByIndex(_)
SortByIndex(rs) ==
    IF rs = <<>> THEN <<>>
    ELSE LET rest == SortByIndex(SubSeq(rs, 1, Len(rs) - 1))
             x == rs[Len(rs)]
             k == Cardinality({i \in 1..Len(rest) :
                      rest[i].msg.message_index <= x.msg.message_index})
         IN  SubSeq(rest, 1, k) \o <<x>> \o SubSeq(rest, k + 1, Len(rest))

\* No sort: the results in the order they were found.
KeepFoundOrder(rs) == rs

\* list.sort(key=score, reverse=True): stable, equals keep their order.
RECURSIVE SortByScoreDesc(_)
SortByScoreDesc(rs) ==
    IF rs = <<>> THEN <<>>
    ELSE LET rest == SortByScoreDesc(SubSeq(rs, 1, Len(rs) - 1))
             x == rs[Len(rs)]
             k == Cardinality({i \in 1..Len(rest) : rest[i].score >= x.score})
         IN  SubSeq(rest, 1, k) \o <<x>> \o SubSeq(rest, k + 1, Len(rest))

\* A walk that measures the distance from the first entry of a group, not
\* from the entry kept.
RECURSIVE KeptWalkFixedAnchor(_, _, _, _)
KeptWalkFixedAnchor(session_results, dedup_distance, kept, anchor) ==
    IF session_results = <<>> THEN kept
    ELSE LET x == Head(session_results)
         IN  IF kept = <<>>
             THEN KeptWalkFixedAnchor(Tail(session_results), dedup_distance,
                                      <<x>>, x.msg.message_index)
             ELSE IF x.msg.message_index - anchor <= dedup_distance
             THEN KeptWalkFixedAnchor(Tail(session_results), dedup_distance,
                     IF x.score > kept[Len(kept)].score
                     THEN [kept EXCEPT ![Len(kept)] = x] ELSE kept,
                     anchor)
             ELSE KeptWalkFixedAnchor(Tail(session_results), dedup_distance,
                                      Append(kept, x), x.msg.message_index)

\* query.py:54-64: the loop over one session's results; the last argument
\* is the position of kept[-1].
RECURSIVE KeptWalk(_, _, _, _)
KeptWalk(session_results, dedup_distance, kept, anchor) ==
    IF session_results = <<>> THEN kept
    ELSE LET x == Head(session_results)
         IN  IF kept = <<>>
             THEN KeptWalk(Tail(session_results), dedup_distance, <<x>>,
                           x.msg.message_index)
             ELSE IF x.msg.message_index - kept[Len(kept)].msg.message_index
                        <= dedup_distance
             THEN KeptWalk(Tail(session_results), dedup_distance,
                     IF x.score > kept[Len(kept)].score
                     THEN [kept EXCEPT ![Len(kept)] = x] ELSE kept,
                     IF x.score > kept[Len(kept)].score
                     THEN x.msg.message_index ELSE anchor)
             ELSE KeptWalk(Tail(session_results), dedup_distance,
                           Append(kept, x), x.msg.message_index)

\* query.py:43-45: the session ids in the order by_session first sees them.
RECURSIVE SessionOrder(_)
SessionOrder(results) ==
    IF results = <<>> THEN <<>>
    ELSE LET before == SessionOrder(SubSeq(results, 1, Len(results) - 1))
             sid == results[Len(results)].msg.session_id
         IN  IF sid \in Range(before) THEN before ELSE Append(before, sid)

\* query.py:50-66: the kept entries of the sessions, one session after the
\* other.
RECURSIVE KeptOfSessions(_, _, _)
KeptOfSessions(sids, results, dedup_distance) ==
    IF sids = <<>> THEN <<>>
    ELSE LET InSession(r) == r.msg.session_id = Head(sids)
             session_results == SortByIndex(SelectSeq(results, InSession))
         IN  KeptWalk(session_results, dedup_distance, <<>>, 0)
                 \o KeptOfSessions(Tail(sids), results, dedup_distance)

\* query.py:36-69, _deduplicate_results.
deduplicate_results(results, context_size) ==
    IF results = <<>> THEN <<>>
    ELSE SortByScoreDesc(
             KeptOfSessions(SessionOrder(results), results, 2 * context_size))

DedupSessions == {1, 2}

DedupPositions == {4, 5, 11}

DedupScores == {30004, 50000}

\* A message of the result lists: its uuid names its session and position.
DedupMessage(sid, pos) ==
    [uuid |-> <<sid, pos>>, session_id |-> sid, message_index |-> pos]

RECURSIVE RawResultLists(_)
RawResultLists(n) ==
    IF n = 0 THEN {<<>>}
    ELSE {Append(l, [msg |-> DedupMessage(sid, pos), score |-> sc]) :
             l \in RawResultLists(n - 1), sid \in DedupSessions,
             pos \in DedupPositions, sc \in DedupScores}

\* What index search returns: no message twice, scores in descending order.
IsRawResultList(l) ==
    /\ \A j, k \in 1..Len(l) : j # k => l[j].msg # l[k].msg
    /\ \A k \in 1..(Len(l) - 1) : l[k].score >= l[k + 1].score

ContextSizes == {1, 3}

DedupInit ==
    /\ q_in \in [results : {l \in UNION {RawResultLists(n) : n \in 0..MaxResults} :
                               IsRawResultList(l)},
                 context_size : ContextSizes]
    /\ q_out = <<>>
    /\ q_pc = "call"
    /\ NoServer

Deduplicate ==
    /\ q_pc = "call"
    /\ q_out' = deduplicate_results(q_in.results, q_in.context_size)
    /\ q_pc' = "returned"
    /\ UNCHANGED <<host_vars, budget_vars, save_vars, server_vars, q_in>>

DedupNext == Deduplicate

SpecDedup == DedupInit /\ [][DedupNext]_vars

\* ---------------------------------------------------------------------------
\* Properties of deduplication (SpecDedup)
\* ---------------------------------------------------------------------------

\* The entries of a list that belong to a session, as a set.
OfSession(list, sid) == {r \in Range(list) : r.msg.session_id = sid}

\* The entry of a session's entries at a position.
EntryAt(entries, pos) == CHOOSE r \in entries : r.msg.message_index = pos

\* Of an earlier and a later entry, the one a merge keeps: the later only
\* when it scores higher.
MergeKeeps(earlier, later) == IF later.score > earlier.score THEN later ELSE earlier

\* C14: the output holds input entries, none twice, in descending score;
\* two entries of one session are more than 2*context_size positions apart;
\* every input entry has an output entry of its session that scores at
\* least as high.  A session with two matches keeps both when they are more
\* than 2*context_size apart and else the higher-scoring one; with three
\* matches the third is compared with the position of the entry kept from
\* the first two.
C14_DedupMerges ==
    q_pc = "returned" =>
        LET d == 2 * q_in.context_size
            Pos(r) == r.msg.message_index
        IN  /\ Range(q_out) \subseteq Range(q_in.results)
            /\ Cardinality(Range(q_out)) = Len(q_out)
            /\ \A k \in 1..(Len(q_out) - 1) : q_out[k].score >= q_out[k + 1].score
            /\ \A x, y \in Range(q_out) :
                  (x # y /\ x.msg.session_id = y.msg.session_id /\ Pos(x) < Pos(y))
                      => Pos(y) - Pos(x) > d
            /\ \A x \in Range(q_in.results) :
                  \E y \in OfSession(q_out, x.msg.session_id) : y.score >= x.score
            /\ \A sid \in DedupSessions :
                  LET ins == OfSession(q_in.results, sid)
                      outs == OfSession(q_out, sid)
                      ps == {Pos(r) : r \in ins}
                  IN  /\ Cardinality(ins) = 2 =>
                            \E p, q \in ps :
                                /\ p < q
                                /\ outs = IF q - p <= d
                                          THEN {MergeKeeps(EntryAt(ins, p), EntryAt(ins, q))}
                                          ELSE ins
                      /\ Cardinality(ins) = 3 =>
                            \E p, q, r \in ps :
                                /\ p < q /\ q < r
                                /\ q - p <= d =>
                                      LET a == MergeKeeps(EntryAt(ins, p), EntryAt(ins, q))
                                          c == EntryAt(ins, r)
                                      IN  outs = IF r - Pos(a) <= d
                                                 THEN {MergeKeeps(a, c)}
                                                 ELSE {a, c}

\* C14: two matches of one session at positions 4 and 5 with context size 3
\* have collapsed into the higher-scoring one.
C14_Witness ==
    /\ q_pc = "returned"
    /\ q_in.context_size = 3
    /\ \E sid \in DedupSessions :
          LET ins == OfSession(q_in.results, sid)
          IN  /\ {r.msg.message_index : r \in ins} = {4, 5}
              /\ Cardinality(ins) = 2
              /\ EntryAt(ins, 5).score > EntryAt(ins, 4).score
              /\ OfSession(q_out, sid) = {EntryAt(ins, 5)}

(***************************************************************************)
(* SpecHint: query.py's _generate_hint on the arguments search_conversations*)
(* gives it (lines 124 and 168).                                           *)
(***************************************************************************)
\* The most deduplicated matches, and the largest offset.
MaxTotal == 4

\* The largest max_results.
MaxPage == 3

\* query.py:72-84, _generate_hint.
generate_hint(total, offset, count, max_results, has_more) ==
    IF total = 0
    THEN "No matches found. Try different search terms."
    ELSE LET start == offset + 1
             end == offset + count
         IN  IF has_more
             THEN "Showing " \o ToString(start) \o "-" \o ToString(end) \o " of "
                      \o ToString(total) \o ". Use offset: "
                      \o ToString(offset + max_results) \o " for more."
             ELSE IF start = 1
             THEN "Showing all " \o ToString(total) \o " matches."
             ELSE "Showing " \o ToString(start) \o "-" \o ToString(end) \o " of "
                      \o ToString(total) \o " (final page)."

\* query.py:129, len(deduplicated[offset : offset + max_results]) for an
\* offset >= 0 and max_results >= 1.
page_length(total, offset, max_results) ==
    IF offset >= total THEN 0 ELSE Min(max_results, total - offset)

\* The arguments of the two calls: line 124 for no raw result, line 168
\* with the page's length and has_more of line 160.
HintArgs ==
    {[total |-> 0, offset |-> 0, count |-> 0, max_results |-> m, has_more |-> FALSE] :
        m \in 1..MaxPage}
    \cup
    {[total |-> t, offset |-> o, count |-> page_length(t, o, m), max_results |-> m,
      has_more |-> o + page_length(t, o, m) < t] :
        t \in 1..MaxTotal, o \in 0..MaxTotal, m \in 1..MaxPage}

HintInit ==
    /\ q_in \in HintArgs
    /\ q_out = ""
    /\ q_pc = "call"
    /\ NoServer

GenerateHint ==
    /\ q_pc = "call"
    /\ q_out' = generate_hint(q_in.total, q_in.offset, q_in.count,
                              q_in.max_results, q_in.has_more)
    /\ q_pc' = "returned"
    /\ UNCHANGED <<host_vars, budget_vars, save_vars, server_vars, q_in>>

HintNext == GenerateHint

SpecHint == HintInit /\ [][HintNext]_vars

\* ---------------------------------------------------------------------------
\* Properties of the hint (SpecHint)
\* ---------------------------------------------------------------------------

\* "{start}-{end} of {total}" with start = offset + 1, end = offset + count.
HintRange ==
    ToString(q_in.offset + 1) \o "-" \o ToString(q_in.offset + q_in.count)
        \o " of " \o ToString(q_in.total)

\* C16: the hint is "No matches found. Try different search terms." for a
\* total of zero; "Showing {start}-{end} of {total}." when the page starts
\* at 1 and no more remain; "Showing {start}-{end} of {total} (final page)."
\* when it does not start at 1 and no more remain; "Showing {start}-{end} of
\* {total}. Use offset: {offset+max_results} for more." when more remain.
C16_HintText ==
    q_pc = "returned" =>
        q_out =
            IF q_in.total = 0
            THEN "No matches found. Try different search terms."
            ELSE IF q_in.has_more
            THEN "Showing " \o HintRange \o ". Use offset: "
                     \o ToString(q_in.offset + q_in.max_results) \o " for more."
            ELSE IF q_in.offset + 1 = 1
            THEN "Showing " \o HintRange \o "."
            ELSE "Showing " \o HintRange \o " (final page)."

(***************************************************************************)
(* SpecQuery: query.py's search_conversations over a built, current index. *)
(* An optional number is a sequence, empty when the argument is None; a    *)
(* date string is a record of what datetime.fromisoformat makes of it.     *)
(***************************************************************************)
\* config.py:130-132, the search defaults; the threshold 0.2 in
\* hundred-thousandths.
default_threshold == 20000

default_max_results == 10

default_context_window == 3

\* query.py:100-102, `value or default`: None and 0 give the default.
or_default(value, default) ==
    IF value = <<>> \/ value[1] = 0 THEN default ELSE value[1]

\* The date strings a caller passes: none, one fromisoformat accepts (with
\* the wall-clock time it names and the UTC offset it carries, if any), one
\* it rejects.
NoDate == [given |-> FALSE, valid |-> TRUE, text |-> "", wall |-> 0, tz |-> <<>>]

DateString(text, wall, tz) ==
    [given |-> TRUE, valid |-> TRUE, text |-> text, wall |-> wall, tz |-> tz]

BadDate == [given |-> TRUE, valid |-> FALSE, text |-> "yesterday", wall |-> 0, tz |-> <<>>]

\* A parser that takes an unparseable string for no bound.
parse_date_lenient(value) ==
    [raised |-> FALSE, error |-> "",
     dt |-> IF value.given /\ value.valid THEN <<value.wall>> ELSE <<>>]

\* query.py:18-28, parse_date_filter: None for None; the naive datetime of
\* the string, its offset dropped (line 24); ValueError for a string
\* fromisoformat rejects.
parse_date_filter(value) ==
    IF ~value.given THEN [raised |-> FALSE, error |-> "", dt |-> <<>>]
    ELSE IF value.valid THEN [raised |-> FALSE, error |-> "", dt |-> <<value.wall>>]
    ELSE [raised |-> TRUE,
          error |-> "Invalid date format: " \o value.text
                        \o ". Use ISO 8601 (e.g., 2025-01-15)",
          dt |-> <<>>]

\* query.py:155, round(score, 4): to the nearest ten hundred-thousandths
\* (no score of the model lies halfway).
round4(score) == ((score + 5) \div 10) * 10

\* sorted(..., key=message_index), a stable sort of messages.
RECURSIVE SortMessagesByIndex(_)
SortMessagesByIndex(ms) ==
    IF ms = <<>> THEN <<>>
    ELSE LET rest == SortMessagesByIndex(SubSeq(ms, 1, Len(ms) - 1))
             x == ms[Len(ms)]
             k == Cardinality({i \in 1..Len(rest) :
                      rest[i].message_index <= x.message_index})
         IN  SubSeq(rest, 1, k) \o <<x>> \o SubSeq(rest, k + 1, Len(rest))

\* indexer.py:339-344, get_messages_by_session.
get_messages_by_session(msgs, session_id) ==
    LET InSession(m) == m.session_id = session_id
    IN  SortMessagesByIndex(SelectSeq(msgs, InSession))

Max(a, b) == IF a >= b THEN a ELSE b

\* indexer.py:346-360, get_context_window.
get_context_window(msgs, message, context_size) ==
    LET session_messages == get_messages_by_session(msgs, message.session_id)
        found == {i \in 1..Len(session_messages) :
                     session_messages[i].uuid = message.uuid}
    IN  IF found = {} THEN <<message>>
        ELSE LET msg_idx == (CHOOSE i \in found : \A j \in found : i <= j) - 1
                 start == Max(0, msg_idx - context_size)
                 end == Min(Len(session_messages), msg_idx + context_size + 1)
             IN  SubSeq(session_messages, start + 1, end)

\* A slice that takes one entry more.
page_inclusive(deduplicated, offset, max_results) ==
    SubSeq(deduplicated, offset + 1, Min(offset + max_results + 1, Len(deduplicated)))

\* query.py:129, deduplicated[offset : offset + max_results] for an offset
\* >= 0 and max_results >= 1.
page(deduplicated, offset, max_results) ==
    SubSeq(deduplicated, offset + 1, Min(offset + max_results, Len(deduplicated)))

\* query.py:131-158: one SearchResult of the response.
search_result(msgs, r, context_size) ==
    LET context_window == get_context_window(msgs, r.msg, context_size)
    IN  [uuid |-> r.msg.uuid, session_id |-> r.msg.session_id,
         score |-> round4(r.score),
         context |-> [i \in 1..Len(context_window) |->
                        [uuid |-> context_window[i].uuid,
                         message_index |-> context_window[i].message_index,
                         is_match |-> context_window[i].uuid = r.msg.uuid]]]

\* query.py:118-125: the response for no raw result.
empty_response(excluded_sessions, max_results) ==
    [results |-> <<>>, total_matches |-> 0, offset |-> 0, has_more |-> FALSE,
     excluded_sessions |-> excluded_sessions,
     hint |-> generate_hint(0, 0, 0, max_results, FALSE)]

\* query.py:127-169: the response for the raw results.
full_response(msgs, excluded_sessions, raw_results, context_size, max_results, offset) ==
    LET deduplicated == deduplicate_results(raw_results, context_size)
        total == Len(deduplicated)
        paginated == page(deduplicated, offset, max_results)
        results == [k \in 1..Len(paginated) |->
                      search_result(msgs, paginated[k], context_size)]
        has_more == offset + Len(results) < total
    IN  [results |-> results, total_matches |-> total, offset |-> offset,
         has_more |-> has_more, excluded_sessions |-> excluded_sessions,
         hint |-> generate_hint(total, offset, Len(results), max_results, has_more)]

NoResponse ==
    [results |-> <<>>, total_matches |-> 0, offset |-> 0, has_more |-> FALSE,
     excluded_sessions |-> 0, hint |-> ""]

\* query.py:87-169, search_conversations: every outcome the call can have.
\* An outcome keeps, next to the response or the error, what index.search
\* returned and whether it was called.
search_conversations(msgs, emb, ts_order, sorted_ts, excluded_sessions, q) ==
    LET context_size == or_default(q.context_size, default_context_window)
        threshold == or_default(q.threshold, default_threshold)
        max_results == or_default(q.max_results, default_max_results)
        after_dt == parse_date_filter(q.after)
        before_dt == parse_date_filter(q.before)
    IN  IF after_dt.raised \/ before_dt.raised
        THEN {[raised |-> TRUE,
               error |-> IF after_dt.raised THEN after_dt.error ELSE before_dt.error,
               searched |-> FALSE, encoded |-> FALSE, raw_results |-> <<>>,
               deduplicated |-> <<>>, response |-> NoResponse]}
        ELSE {[raised |-> FALSE, error |-> "", searched |-> TRUE,
               encoded |-> o.encoded, raw_results |-> o.results,
               deduplicated |-> deduplicate_results(o.results, context_size),
               response |->
                   IF o.results = <<>>
                   THEN empty_response(excluded_sessions, max_results)
                   ELSE full_response(msgs, excluded_sessions, o.results, context_size,
                                      max_results, q.offset)] :
                 o \in search(msgs, emb, ts_order, sorted_ts,
                              [workspace |-> q.workspace, source |-> q.source,
                               threshold |-> threshold,
                               max_results |-> (q.offset + max_results) * 3,
                               after |-> after_dt.dt, before |-> before_dt.dt])}

\* The messages of the corpora searched: the session and the text.  Session
\* 1 is a CLI session, whose positions count its messages (cli_loader.py:
\* 138); session 2 is an IDE session in which only every third entry is a
\* message, so that its positions are 0, 3, 6 (ide_loader.py:103-135).
QueryKinds == [session_id : {1, 2}, text : QueryTexts]

RECURSIVE QueryKindLists(_)
QueryKindLists(n) ==
    IF n = 0 THEN {<<>>}
    ELSE {Append(l, k) : l \in QueryKindLists(n - 1), k \in QueryKinds}

QueryMessage(l, i) ==
    LET earlier == Cardinality({j \in 1..(i - 1) : l[j].session_id = l[i].session_id})
    IN  SearchMessage(i, l[i].session_id,
                      IF l[i].session_id = 1 THEN earlier ELSE 3 * earlier,
                      [timestamp |-> 5 * i, text |-> l[i].text,
                       workspace |-> <<"/", "w">>,
                       source |-> IF l[i].session_id = 1 THEN "cli" ELSE "ide"])

QueryCorpora ==
    {[i \in 1..Len(l) |-> QueryMessage(l, i)] :
        l \in UNION {QueryKindLists(n) : n \in 0..MaxMessages}}

\* The arguments of a search_conversations call.
QueryArgs ==
    [workspace : {<<>>},
     source : {Absent},
     after : {NoDate, DateString("2025-01-07", 7, <<>>), BadDate},
     before : {NoDate, DateString("2025-01-15T00:00:00+00:00", 15, <<0>>), BadDate},
     context_size : {<<>>, <<0>>, <<1>>},
     threshold : {<<>>, <<30004>>},
     max_results : {<<>>, <<1>>, <<2>>},
     offset : {0, 1, 2}]

QueryInit ==
    /\ \E corpus \in QueryCorpora : BuiltIndex(corpus)
    /\ q_in \in QueryArgs
    /\ q_out = <<>>
    /\ q_pc = "call"

\* One call of search_conversations.
SearchConversations ==
    /\ q_pc = "call"
    /\ q_out' \in search_conversations(messages, embeddings, timestamp_order.rows,
                                       sorted_timestamps.rows,
                                       excluded_session_count, q_in)
    /\ q_pc' = "returned"
    /\ UNCHANGED <<host_vars, budget_vars, save_vars, server_vars, q_in>>

QueryNext == SearchConversations

SpecQuery == QueryInit /\ [][QueryNext]_vars

(***************************************************************************)
(* Claims about search_conversations.                                      *)
(***************************************************************************)
\* The call has a date string that cannot be parsed.
HasBadDate(q) ==
    \/ q.after.given /\ ~q.after.valid
    \/ q.before.given /\ ~q.before.valid

\* The message of the validation error for a date string.
ExpectedFormatError(value) ==
    "Invalid date format: " \o value.text \o ". Use ISO 8601 (e.g., 2025-01-15)"

\* C18: a call whose after or before string cannot be parsed ends with an
\* error that names the expected format, and index.search was not called
\* (so no session was listed, nothing was built, the cache was neither
\* read nor written and no text was embedded) and the index is as it was.
C18_InvalidDateBeforeIndexWork ==
    [][(q_pc = "call" /\ q_pc' = "returned" /\ HasBadDate(q_in))
          => /\ q_out'.raised
             /\ q_out'.error \in {ExpectedFormatError(q_in.after),
                                  ExpectedFormatError(q_in.before)}
             /\ ~q_out'.searched
             /\ ~q_out'.encoded
             /\ UNCHANGED <<host_vars, index_vars>>]_vars

C18_Witness ==
    /\ q_pc = "returned"
    /\ q_in.before = BadDate
    /\ q_in.after.given /\ q_in.after.valid
    /\ q_out.raised
    /\ Len(messages) = MaxMessages

MaxResultsOf(q) == IF q.max_results = <<>> THEN default_max_results ELSE q.max_results[1]

\* The entries offset+1 .. offset+n of a list, as far as it reaches.
SliceOf(list, offset, n) ==
    [k \in 1..(IF offset >= Len(list) THEN 0 ELSE Min(n, Len(list) - offset)) |->
        list[offset + k]]

\* C15: the results of a response are the entries [offset, offset +
\* max_results) of the deduplicated list, at most max_results of them, and
\* has_more says that offset + the number returned is below the length of
\* that list; 25 entries with offset 10 and max_results 10 give the entries
\* 11..20, has_more and "Showing 11-20 of 25. Use offset: 20 for more.".
C15_Pagination ==
    /\ (q_pc = "returned" /\ ~q_out.raised)
          => LET results == q_out.response.results
                 expected == SliceOf(q_out.deduplicated, q_in.offset, MaxResultsOf(q_in))
             IN  /\ Len(results) = Len(expected)
                 /\ \A k \in 1..Len(results) : results[k].uuid = expected[k].msg.uuid
                 /\ Len(results) <= MaxResultsOf(q_in)
                 /\ q_out.response.total_matches = Len(q_out.deduplicated)
                 /\ q_out.response.has_more
                        <=> (q_in.offset + Len(results) < Len(q_out.deduplicated))
    /\ page([i \in 1..25 |-> i], 10, 10) = [k \in 1..10 |-> 10 + k]
    /\ generate_hint(25, 10, 10, 10, 10 + 10 < 25)
           = "Showing 11-20 of 25. Use offset: 20 for more."

C15_Witness ==
    /\ q_pc = "returned"
    /\ q_in.offset = 1
    /\ q_in.max_results = <<1>>
    /\ Len(q_out.deduplicated) = 3
    /\ Len(q_out.response.results) = 1
    /\ q_out.response.results[1].uuid = q_out.deduplicated[2].msg.uuid
    /\ q_out.response.has_more

\* The message of the index with this uuid.
MessageOf(uuid) == messages[CHOOSE i \in 1..Len(messages) : messages[i].uuid = uuid]

\* The context of a match is the window of c positions around it.
WindowOfPositions(r, c) ==
    LET match == MessageOf(r.uuid)
        InWindow(m) ==
            /\ m.session_id = match.session_id
            /\ match.message_index - c <= m.message_index
            /\ m.message_index <= match.message_index + c
        window == SortMessagesByIndex(SelectSeq(messages, InWindow))
    IN  /\ Len(r.context) = Len(window)
        /\ \A i \in 1..Len(window) : r.context[i].uuid = window[i].uuid
        /\ Len(r.context) <= 2 * c + 1
        /\ \E i \in 1..Len(r.context) : r.context[i].uuid = r.uuid
        /\ \A i \in 1..Len(r.context) :
              r.context[i].is_match <=> (r.context[i].uuid = r.uuid)

\* C19: for a call that passes a context_size c >= 0, the context of every
\* match is the messages of its session at the positions matchPos - c ..
\* matchPos + c, in ascending order, the match among them and alone flagged
\* is_match.
C19_ContextWindow ==
    (q_pc = "returned" /\ ~q_out.raised /\ q_in.context_size # <<>>)
        => \A k \in 1..Len(q_out.response.results) :
              WindowOfPositions(q_out.response.results[k], q_in.context_size[1])

\* The scores of a list do not increase.
NonIncreasing(scores) ==
    \A i, j \in 1..Len(scores) : i < j => scores[i] >= scores[j]

ScoresOf(rs) == [k \in 1..Len(rs) |-> rs[k].score]

\* The threshold in effect: the one passed, the default for none or 0.
ThresholdOf(q) ==
    IF q.threshold = <<>> \/ q.threshold[1] = 0 THEN default_threshold
    ELSE q.threshold[1]

\* C11 as stated: what index.search returned and what the response lists
\* are in non-increasing score order, and no score of either is below the
\* threshold the caller passed.
C11_OrderedAboveThreshold ==
    (q_pc = "returned" /\ ~q_out.raised)
        => /\ NonIncreasing(ScoresOf(q_out.raw_results))
           /\ NonIncreasing(ScoresOf(q_out.response.results))
           /\ q_in.threshold # <<>>
                 => /\ \A k \in 1..Len(q_out.raw_results) :
                          q_out.raw_results[k].score >= q_in.threshold[1]
                    /\ \A k \in 1..Len(q_out.response.results) :
                          q_out.response.results[k].score >= q_in.threshold[1]

\* C11, amended: both lists are in non-increasing score order; every result
\* of index.search has a similarity at or above the threshold in effect;
\* the score the response reports for a match is that similarity rounded
\* to 4 decimals, which is at or above the threshold so rounded.
C11_OrderedAboveThresholdRounded ==
    (q_pc = "returned" /\ ~q_out.raised)
        => /\ NonIncreasing(ScoresOf(q_out.raw_results))
           /\ NonIncreasing(ScoresOf(q_out.response.results))
           /\ \A k \in 1..Len(q_out.raw_results) :
                 q_out.raw_results[k].score >= ThresholdOf(q_in)
           /\ \A k \in 1..Len(q_out.response.results) :
                 LET r == q_out.response.results[k]
                 IN  /\ \E j \in 1..Len(q_out.raw_results) :
                            /\ q_out.raw_results[j].msg.uuid = r.uuid
                            /\ r.score = ((q_out.raw_results[j].score + 5) \div 10) * 10
                     /\ r.score >= ((ThresholdOf(q_in) + 5) \div 10) * 10

C11_Witness ==
    /\ q_pc = "returned"
    /\ q_in.threshold = <<30004>>
    /\ Len(q_out.response.results) = 2
    /\ q_out.response.results[1].score = 50000
    /\ q_out.response.results[2].score = 30000
    /\ \E k \in 1..Len(messages) : messages[k].searchable_text = "lo"

(***************************************************************************)
(* Claims about a build that the embedding provider aborts, about the      *)
(* stored fingerprint and about the pages of one search.                   *)
(***************************************************************************)
\* Thread u's build_index ran with no other build beside it and was ended
\* by an error of the embedding provider, and the exception has not yet
\* left the thread.
AbortedByProvider(u) ==
    /\ pc[u] = "raised"
    /\ loc[u].cause = "model"
    /\ loc[u].solo

\* Some row of the matrix is one of np.zeros, never assigned a vector.
HasZeroRow ==
    ~embeddings.none /\ \E i \in 1..Len(embeddings.rows) : embeddings.rows[i] = zero_row

\* C21: after a build that the embedding provider aborted, the next
\* ensure_index over the same sessions builds again, and no search is
\* answered from rows that were never computed.
C21_AbortedBuildIsRebuilt ==
    [][\A u \in Threads :
          (AbortedByProvider(u) /\ raw_sessions' = raw_sessions)
              => /\ (pc["request"] = "idle" /\ pc'["request"] # "idle")
                        => pc'["request"] = "build_fingerprint"
                 /\ (pc["request"] = "ensured" /\ result' # result
                        /\ result'.status = "ok" /\ result'.hits > 0)
                        => ~HasZeroRow]_vars

\* The index's messages are those selected and loaded from this listing,
\* and the stored fingerprint is this listing's.
FingerprintOfLoaded(listed) ==
    LET r == select_sessions_within_limit(list_all_sessions(listed), memory_limit)
    IN  /\ messages = load_messages_for_sessions(r.selected)
        /\ excluded_session_count = Len(r.excluded)
        /\ sessions_fingerprint = get_sessions_fingerprint(listed)

\* C22: when a build that ran alone has completed, the stored fingerprint
\* is that of the listing the messages were loaded from, so that
\* needs_rebuild() says whether the live sessions differ from that listing.
C22_FingerprintOfLoadedListing ==
    \A t \in Threads :
        BuiltAlone(t) =>
            \E ids \in SUBSET WorldIds :
                /\ FingerprintOfLoaded(Listing(ids, 3))
                /\ needs_rebuild(raw_sessions)
                      <=> (get_sessions_fingerprint(raw_sessions)
                              # get_sessions_fingerprint(Listing(ids, 3)))

(***************************************************************************)
(* SpecPages: the same search asked page after page, the offsets 0,        *)
(* max_results, 2 * max_results, ... over one built index.  q_out is the   *)
(* list of the responses so far.                                           *)
(***************************************************************************)
MaxPageMessages == 4

MaxPages == 3

PageCorpora ==
    {[i \in 1..Len(l) |-> QueryMessage(l, i)] :
        l \in UNION {QueryKindLists(n) : n \in 0..MaxPageMessages}}

\* The arguments of the first call: offset 0.
PageArgs ==
    [workspace : {<<>>},
     source : {Absent},
     after : {NoDate},
     before : {NoDate},
     context_size : {<<>>, <<1>>},
     threshold : {<<>>, <<30004>>},
     max_results : {<<1>>, <<2>>},
     offset : {0}]

PagesInit ==
    /\ \E corpus \in PageCorpora : BuiltIndex(corpus)
    /\ q_in \in PageArgs
    /\ q_out = <<>>
    /\ q_pc = "call"

\* One call of search_conversations with the arguments q_in.
FetchPage ==
    /\ q_pc = "call"
    /\ \E o \in search_conversations(messages, embeddings, timestamp_order.rows,
                                     sorted_timestamps.rows,
                                     excluded_session_count, q_in) :
          q_out' = Append(q_out, o.response)
    /\ q_pc' = "returned"
    /\ UNCHANGED <<host_vars, budget_vars, save_vars, server_vars, q_in>>

\* The caller asks for the next page: the same arguments, the offset
\* raised by max_results.
NextOffset ==
    /\ q_pc = "returned"
    /\ Len(q_out) < MaxPages
    /\ q_in' = [q_in EXCEPT !.offset = @ + q_in.max_results[1]]
    /\ q_pc' = "call"
    /\ UNCHANGED <<host_vars, budget_vars, save_vars, server_vars, q_out>>

PagesNext == FetchPage \/ NextOffset

SpecPages == PagesInit /\ [][PagesNext]_vars

\* The deduplicated lists of all matches: every match above the threshold
\* fetched, in each order the index can return them.
AllDeduplicated ==
    {deduplicate_results(o.results,
                         or_default(q_in.context_size, default_context_window)) :
        o \in search(messages, embeddings, timestamp_order.rows,
                     sorted_timestamps.rows,
                     [workspace |-> q_in.workspace, source |-> q_in.source,
                      threshold |-> ThresholdOf(q_in),
                      max_results |-> Len(messages) + 1,
                      after |-> <<>>, before |-> <<>>])}

\* C23: the responses at the offsets 0, max_results, 2 * max_results, ...
\* agree with one deduplicated list of all matches: each has its length as
\* total_matches, each page is its slice at the page's offset, and
\* has_more is false only on a page that reaches its end.
C23_PagesOfOneList ==
    q_pc = "returned" =>
        \E full \in AllDeduplicated :
            \A k \in 1..Len(q_out) :
                LET offset == (k - 1) * q_in.max_results[1]
                    expected == SliceOf(full, offset, q_in.max_results[1])
                IN  /\ q_out[k].total_matches = Len(full)
                    /\ Len(q_out[k].results) = Len(expected)
                    /\ \A i \in 1..Len(expected) :
                          q_out[k].results[i].uuid = expected[i].msg.uuid
                    /\ ~q_out[k].has_more => offset + Len(q_out[k].results) >= Len(full)

====
